---- MODULE Spec2Model ----
(***************************************************************************)
(* CogniFlow-AI dashboard: the client-side service layer (services/api)    *)
(* seen as a state machine.  The durable metrics record lives in           *)
(* localStorage under METRICS_KEY, every mutation of it dispatches the     *)
(* METRICS_EVENT on window, and the chat / analysis adapters are async     *)
(* functions whose awaits suspend and resume in any order on the single    *)
(* UI thread.                                                              *)
(***************************************************************************)
EXTENDS Integers, Sequences, FiniteSets, TLC

(* ----------------------------- bounds ---------------------------------- *)

\* adapter calls (chat or analysis) issued within one page
MaxCalls == 2
\* KPICards handlers that may register for the metrics event
MaxSubs == 2
\* largest counter value found in a durable record left by an earlier page
MaxStored == 2

CallIds == 1..MaxCalls
Subs == 1..MaxSubs

VARIABLES
    localStorage, \* the durable key-value store: key -> item
    listeners,  \* handlers registered on window for METRICS_EVENT
    mounted,    \* per KPICards instance: "never" | "mounted" | "removed"
    invoked,    \* per handler: how many times the event invoked it
    io,         \* counters of localStorage reads / writes and dispatchEvent calls
    events,     \* record operations performed so far, by kind
    calls,      \* per adapter call: its input, position, requests and outcome
    view,       \* outcome of the last getDashboardMetrics call, or of a helper applied to an input
    chatbot,    \* ChatbotSection's component state
    emotion,    \* EmotionAnalysisSection's component state
    app,        \* App's component state, the transport's configuration and the requests App issued
    cards       \* per KPICards instance: its displayed values and its loadMetrics runs

vars == <<localStorage, listeners, mounted, invoked, io, events, calls, view, chatbot, emotion,
          app, cards>>

(* ------------------------- JavaScript values --------------------------- *)

\* a number, kept as a reduced fraction n/d (d = 1 for the integers)
Num(k) == [t |-> "number", n |-> k, d |-> 1]
Undefined == [t |-> "undefined"]
Null == [t |-> "null"]
NaN == [t |-> "NaN"]

RECURSIVE Gcd(_, _)
Gcd(a, b) == IF b = 0 THEN a ELSE Gcd(b, a % b)

\* a / b for integers a >= 0, b > 0
Frac(a, b) == LET g == Gcd(a, b) IN [t |-> "number", n |-> a \div g, d |-> b \div g]

\* v + k when k is a number: undefined + k and NaN + k are NaN, null counts as 0
JsAdd(v, k) ==
    CASE v.t = "number" -> Num(v.n + k)
      [] v.t = "null" -> Num(k)
      [] OTHER -> NaN

\* truthiness of a field value: 0, NaN, null and undefined are falsy
Truthy(v) == v.t = "number" /\ v.n # 0

\* a / b for field values with b a non-zero number
JsDiv(a, b) ==
    CASE a.t = "number" -> Frac(a.n, b.n)
      [] a.t = "null" -> Num(0)
      [] OTHER -> NaN

\* Math.round of the fraction num/den (den > 0, num >= 0): half rounds up
MathRound(num, den) == (2 * num + den) \div (2 * den)

(* --------------------------- metrics record ---------------------------- *)

MetricFields == {"totalConversations", "videosProcessed", "analyzedCount", "analyzedConfidenceSum"}

Obj(f) == [t |-> "object", f |-> f]

ZeroMetrics ==
    Obj([totalConversations |-> Num(0), videosProcessed |-> Num(0),
         analyzedCount |-> Num(0), analyzedConfidenceSum |-> Num(0)])

\* JSON.stringify of a value: NaN is written as null, an undefined field is left out
JsonStringify(v) ==
    IF v.t = "object"
    THEN [kind |-> "json",
          val |-> Obj([k \in MetricFields |-> IF v.f[k].t = "NaN" THEN Null ELSE v.f[k]])]
    ELSE [kind |-> "json", val |-> IF v.t = "NaN" THEN Null ELSE v]

METRICS_KEY == "cogniflow_metrics"
AUTH_TOKEN_KEY == "cogniflow_auth_token"
API_BASE_KEY == "cogniflow_api_base"
StorageKeys == {METRICS_KEY, AUTH_TOKEN_KEY, API_BASE_KEY}

\* an item of localStorage: no entry, the empty string, text that is not JSON,
\* JSON text, or (under the other keys) plain text
NoItem == [kind |-> "missing"]
Text(chars) == [kind |-> "text", val |-> chars]
EmptyStorage == [k \in StorageKeys |-> NoItem]
EmptyText == [kind |-> "empty"]
Garbage == [kind |-> "garbage"]

\* readMetrics: the parsed record, or the all-zero record when the entry is
\* missing or empty or JSON.parse throws
readMetrics(raw) ==
    CASE raw.kind = "missing" -> ZeroMetrics
      [] raw.kind = "empty" -> ZeroMetrics
      [] raw.kind = "garbage" -> ZeroMetrics
      [] OTHER -> raw.val

\* property read metrics[k]: a number or null has no such property
Get(metrics, k) == IF metrics.t = "object" THEN metrics.f[k] ELSE Undefined

\* the part of the page the metrics store acts on, threaded through its
\* synchronous operations; thrown is set when an operation raises
World == [localStorage |-> localStorage, invoked |-> invoked, io |-> io, events |-> events,
          thrown |-> FALSE]

\* what a handler finds in the stored record when a notification reaches it
Snapshot(raw) ==
    [videosProcessed |-> Get(readMetrics(raw), "videosProcessed"),
     analyzedCount |-> Get(readMetrics(raw), "analyzedCount")]

\* window.dispatchEvent: each registered handler is invoked once, synchronously,
\* while the store holds what was written just before
dispatchEvent(w) ==
    [w EXCEPT !.io.dispatches = @ + 1,
              !.invoked = [s \in Subs |-> IF s \in listeners THEN @[s] + 1 ELSE @[s]],
              !.events.notified = @ \cup {Snapshot(w.localStorage[METRICS_KEY])}]

\* writeMetrics that stores the record and forgets the broadcast
writeMetrics_NoDispatch(w, next) ==
    [w EXCEPT !.localStorage[METRICS_KEY] = JsonStringify(next), !.io.writes = @ + 1]

\* writeMetrics: store the serialized record, then broadcast
writeMetrics(w, next) ==
    dispatchEvent([w EXCEPT !.localStorage[METRICS_KEY] = JsonStringify(next), !.io.writes = @ + 1])

\* incrementConversation with the counter of incrementVideos
incrementConversation_WrongField(w) ==
    LET metrics == readMetrics(w.localStorage[METRICS_KEY])
        r == [w EXCEPT !.io.reads = @ + 1]
    IN  IF metrics.t # "object"
        THEN [r EXCEPT !.thrown = TRUE]
        ELSE writeMetrics(
                [r EXCEPT !.events.conversation = @ + 1],
                Obj([metrics.f EXCEPT !.videosProcessed = JsAdd(@, 1)]))

\* metrics.<k> += by on what readMetrics returned, then writeMetrics; assigning
\* a property of null or of a number raises a TypeError (module code is strict)
incrementConversation(w) ==
    LET metrics == readMetrics(w.localStorage[METRICS_KEY])
        r == [w EXCEPT !.io.reads = @ + 1]
    IN  IF metrics.t # "object"
        THEN [r EXCEPT !.thrown = TRUE]
        ELSE writeMetrics(
                [r EXCEPT !.events.conversation = @ + 1],
                Obj([metrics.f EXCEPT !.totalConversations = JsAdd(@, 1)]))

incrementVideos(w) ==
    LET metrics == readMetrics(w.localStorage[METRICS_KEY])
        r == [w EXCEPT !.io.reads = @ + 1]
    IN  IF metrics.t # "object"
        THEN [r EXCEPT !.thrown = TRUE]
        ELSE writeMetrics(
                [r EXCEPT !.events.videoProcessed = @ + 1],
                Obj([metrics.f EXCEPT !.videosProcessed = JsAdd(@, 1)]))

addAnalysisConfidence(w, confidencePercent) ==
    LET metrics == readMetrics(w.localStorage[METRICS_KEY])
        r == [w EXCEPT !.io.reads = @ + 1]
    IN  IF metrics.t # "object"
        THEN [r EXCEPT !.thrown = TRUE]
        ELSE writeMetrics(
                [r EXCEPT !.events.analysisSample = @ + 1,
                          !.events.confidenceSum = @ + confidencePercent],
                Obj([metrics.f EXCEPT !.analyzedCount = JsAdd(@, 1),
                                      !.analyzedConfidenceSum = JsAdd(@, confidencePercent)]))

\* getDashboardMetrics that reports the confidence sum without dividing it
getDashboardMetrics_SumOnly(raw) ==
    LET metrics == readMetrics(raw)
        aiAccuracyScore ==
            IF Truthy(Get(metrics, "analyzedCount"))
            THEN Get(metrics, "analyzedConfidenceSum")
            ELSE Num(0)
    IN  IF metrics.t = "null"
        THEN [thrown |-> TRUE]
        ELSE [thrown |-> FALSE,
              totalConversations |-> Get(metrics, "totalConversations"),
              videosProcessed |-> Get(metrics, "videosProcessed"),
              aiAccuracyScore |-> aiAccuracyScore]

\* getDashboardMetrics: the derived view; reading a property of null raises
getDashboardMetrics(raw) ==
    LET metrics == readMetrics(raw)
        aiAccuracyScore ==
            IF Truthy(Get(metrics, "analyzedCount"))
            THEN JsDiv(Get(metrics, "analyzedConfidenceSum"), Get(metrics, "analyzedCount"))
            ELSE Num(0)
    IN  IF metrics.t = "null"
        THEN [thrown |-> TRUE]
        ELSE [thrown |-> FALSE,
              totalConversations |-> Get(metrics, "totalConversations"),
              videosProcessed |-> Get(metrics, "videosProcessed"),
              aiAccuracyScore |-> aiAccuracyScore]

\* the variables a metrics operation leaves behind
Commit(w) ==
    /\ localStorage' = w.localStorage
    /\ invoked' = w.invoked
    /\ io' = w.io
    /\ events' = w.events

(* ------------------------------ subscribers ---------------------------- *)

\* KPICards effect: window.addEventListener(eventName, handler); instances are
\* numbered in the order they mount
Subscribe(s) ==
    /\ mounted[s] = "never"
    /\ IF s = 1 THEN TRUE ELSE mounted[s - 1] # "never"
    /\ listeners' = listeners \cup {s}
    /\ mounted' = [mounted EXCEPT ![s] = "mounted"]
    /\ UNCHANGED <<localStorage, invoked, io, events, calls, view, chatbot, emotion, app, cards>>

\* a cleanup that hands removeEventListener a fresh closure: nothing is removed
Unsubscribe_NewClosure(s) ==
    /\ mounted[s] # "never"
    /\ listeners' = listeners
    /\ mounted' = [mounted EXCEPT ![s] = "removed"]
    /\ UNCHANGED <<localStorage, invoked, io, events, calls, view, chatbot, emotion, app, cards>>

\* the effect's cleanup: window.removeEventListener(eventName, handler);
\* removing a handler that is not registered does nothing
Unsubscribe(s) ==
    /\ mounted[s] # "never"
    /\ listeners' = listeners \ {s}
    /\ mounted' = [mounted EXCEPT ![s] = "removed"]
    /\ UNCHANGED <<localStorage, invoked, io, events, calls, view, chatbot, emotion, app, cards>>

(* ------------------------------ adapter calls -------------------------- *)

Pending == [state |-> "pending"]
Resolved(v) == [state |-> "resolved", value |-> v]
Rejected(e) == [state |-> "rejected", error |-> e]

IdleCall == [op |-> "none", pc |-> "idle", sent |-> <<>>, outcome |-> Pending]

\* an HTTP request handed to apiClient; status: "pending" | "ok" | "failed"
Req(path, body) == [path |-> path, body |-> body, status |-> "pending"]

\* calls are numbered in the order they are issued
CanStart(id) == calls[id].op = "none" /\ (IF id = 1 THEN TRUE ELSE calls[id - 1].op # "none")

\* the last request of a call settles with the given status
SettleLast(sent, status) == [sent EXCEPT ![Len(sent)].status = status]

\* the last request of a call is answered with the response body data
Answer(sent, data) ==
    [sent EXCEPT ![Len(sent)] =
        [path |-> @.path, body |-> @.body, status |-> "ok", data |-> data]]

PathsOf(c) == {c.sent[i].path : i \in 1..Len(c.sent)}

(* ------------------------------- chat path ----------------------------- *)

ChatModes == {"general", "pdf"}
ResponseModes == {"strict", "solve"}
ChatProviders == {"local", "external"}
NoKey == "<undefined>"
NoFile == "<null>"

\* normalizeProvider that passes the UI's provider name through
normalizeProvider_Raw(provider) == provider

normalizeProvider(provider) == IF provider = "external" THEN "api" ELSE "local"

\* the request sendChat posts for a payload
sendChatRequest(payload) ==
    IF payload.mode = "pdf"
    THEN Req("/rag-query",
             [question |-> payload.question, mode |-> payload.response_mode,
              llm_type |-> normalizeProvider(payload.provider), api_key |-> payload.api_key])
    ELSE Req("/chat",
             [message |-> payload.question,
              llm_type |-> normalizeProvider(payload.provider), api_key |-> payload.api_key])

\* NeedsUpload without the test of the mode
NeedsUpload_AnyMode(input) == input.pdfContext # NoFile

\* chatbotApi.sendMessage uploads the context document first in this case
NeedsUpload(input) == input.mode = "pdf" /\ input.pdfContext # NoFile

\* the payload chatbotApi.sendMessage hands to sendChat
ChatPayloadOf(input) ==
    [question |-> input.message, mode |-> input.mode, response_mode |-> input.responseMode,
     provider |-> input.provider, api_key |-> input.apiKey]

\* a call of chatbotApi.sendMessage suspended at its first await
sendMessageCall(input) ==
    IF NeedsUpload(input)
    THEN [op |-> "sendMessage", input |-> input, pc |-> "uploadChatPDF",
          sent |-> <<Req("/upload-pdf", [file |-> input.pdfContext])>>,
          outcome |-> Pending]
    ELSE [op |-> "sendMessage", input |-> input, pc |-> "sendChat",
          sent |-> <<sendChatRequest(ChatPayloadOf(input))>>,
          outcome |-> Pending]

\* chatbotApi.sendMessage up to its first await
SendMessage(id, input) ==
    /\ CanStart(id)
    /\ calls' = [calls EXCEPT ![id] = sendMessageCall(input)]
    /\ UNCHANGED <<localStorage, listeners, mounted, invoked, io, events, view, chatbot, emotion, app, cards>>

\* await uploadChatPDF(...) resumes: on success sendChat is entered and posts
\* its request, on failure the rejection propagates out of sendMessage
UploadSettled(id, ok) ==
    LET c == calls[id] IN
    /\ c.pc = "uploadChatPDF"
    /\ calls' = [calls EXCEPT ![id] =
            IF ok
            THEN [c EXCEPT !.pc = "sendChat",
                           !.sent = Append(SettleLast(c.sent, "ok"),
                                           sendChatRequest(ChatPayloadOf(c.input)))]
            ELSE [c EXCEPT !.pc = "settled",
                           !.sent = SettleLast(c.sent, "failed"),
                           !.outcome = Rejected("transport")]]
    /\ UNCHANGED <<localStorage, listeners, mounted, invoked, io, events, view, chatbot, emotion, app, cards>>

\* what the backend may answer to a chat request
ChatReplies(path) ==
    IF path = "/rag-query" THEN {[answer |-> "grounded"]} ELSE {[response |-> "hello"]}

\* await apiClient.post(...) in sendChat resumes with the response body
ChatSucceeded(id, data) ==
    LET c == calls[id]
        w == incrementConversation(World)
    IN
    /\ c.pc = "sendChat"
    /\ data \in ChatReplies(c.sent[Len(c.sent)].path)
    /\ calls' = [calls EXCEPT ![id] =
            [c EXCEPT !.pc = "settled",
                      !.sent = Answer(c.sent, data),
                      !.outcome = IF w.thrown THEN Rejected("TypeError")
                                  ELSE IF c.input.mode = "pdf"
                                       THEN Resolved([response |-> data.answer])
                                       ELSE Resolved(data)]]
    /\ Commit(w)
    /\ UNCHANGED <<listeners, mounted, view, chatbot, emotion, app, cards>>

\* await apiClient.post(...) in sendChat rejects
ChatFailed(id) ==
    LET c == calls[id] IN
    /\ c.pc = "sendChat"
    /\ calls' = [calls EXCEPT ![id] =
            [c EXCEPT !.pc = "settled",
                      !.sent = SettleLast(c.sent, "failed"),
                      !.outcome = Rejected("transport")]]
    /\ UNCHANGED <<localStorage, listeners, mounted, invoked, io, events, view, chatbot, emotion, app, cards>>

(* ----------------------------- analysis path --------------------------- *)

Max(a, b) == IF a >= b THEN a ELSE b
Min(a, b) == IF a <= b THEN a ELSE b

\* a ?? b
Coalesce(a, b) == IF a.t \in {"null", "undefined"} THEN b ELSE a

\* RoundPercent that rounds the fraction without scaling it to a percentage
RoundPercent_NoScale(c) == MathRound(c.n, c.d)

\* Math.round(c * 100) for a number c
RoundPercent(c) == MathRound(c.n * 100, c.d)

\* inferIntensity with bands that exclude their lower bound
inferIntensity_Exclusive(confidencePercent) ==
    IF confidencePercent > 80 THEN "High"
    ELSE IF confidencePercent > 60 THEN "Medium"
    ELSE "Low"

inferIntensity(confidencePercent) ==
    IF confidencePercent >= 80 THEN "High"
    ELSE IF confidencePercent >= 60 THEN "Medium"
    ELSE "Low"

\* buildEmotionBreakdown whose last entry has no floor
buildEmotionBreakdown_NoFloor(dominantMood, confidencePercent) ==
    LET dominant == Max(20, Min(95, MathRound(confidencePercent, 1)))
        secondary == Max(5, MathRound((100 - dominant) * 6, 10))
        tertiary == 100 - dominant - secondary
    IN  << [name |-> dominantMood, value |-> dominant, color |-> "#3b82f6"],
           [name |-> "Secondary", value |-> secondary, color |-> "#8b5cf6"],
           [name |-> "Residual", value |-> tertiary, color |-> "#22c55e"] >>

\* buildEmotionBreakdown that truncates the secondary share instead of rounding it
buildEmotionBreakdown_Truncate(dominantMood, confidencePercent) ==
    LET dominant == Max(20, Min(95, MathRound(confidencePercent, 1)))
        secondary == Max(5, ((100 - dominant) * 6) \div 10)
        tertiary == Max(5, 100 - dominant - secondary)
    IN  << [name |-> dominantMood, value |-> dominant, color |-> "#3b82f6"],
           [name |-> "Secondary", value |-> secondary, color |-> "#8b5cf6"],
           [name |-> "Residual", value |-> tertiary, color |-> "#22c55e"] >>

\* buildEmotionBreakdown whose dominant share is capped at 99 instead of 95
buildEmotionBreakdown_Cap99(dominantMood, confidencePercent) ==
    LET dominant == Max(20, Min(99, MathRound(confidencePercent, 1)))
        secondary == Max(5, MathRound((100 - dominant) * 6, 10))
        tertiary == Max(5, 100 - dominant - secondary)
    IN  << [name |-> dominantMood, value |-> dominant, color |-> "#3b82f6"],
           [name |-> "Secondary", value |-> secondary, color |-> "#8b5cf6"],
           [name |-> "Residual", value |-> tertiary, color |-> "#22c55e"] >>

buildEmotionBreakdown(dominantMood, confidencePercent) ==
    LET dominant == Max(20, Min(95, MathRound(confidencePercent, 1)))
        secondary == Max(5, MathRound((100 - dominant) * 6, 10))
        tertiary == Max(5, 100 - dominant - secondary)
    IN  << [name |-> dominantMood, value |-> dominant, color |-> "#3b82f6"],
           [name |-> "Secondary", value |-> secondary, color |-> "#8b5cf6"],
           [name |-> "Residual", value |-> tertiary, color |-> "#22c55e"] >>

\* names every object inherits from Object.prototype
PrototypeKeys == {"constructor", "toString", "valueOf", "hasOwnProperty", "__proto__"}

\* moodToValue[mood]: an own entry, an inherited member, or undefined
moodToValue(mood) ==
    CASE mood = "intense" -> Num(95)
      [] mood = "energetic" -> Num(85)
      [] mood = "dramatic" -> Num(80)
      [] mood = "dark" -> Num(70)
      [] mood = "calm" -> Num(40)
      [] mood = "neutral" -> Num(50)
      [] mood \in PrototypeKeys -> [t |-> "inherited", name |-> mood]
      [] OTHER -> Undefined

mapAudioArcToIntensitySeries(arc) ==
    [i \in 1..Len(arc) |-> Coalesce(moodToValue(arc[i].mood), Num(50))]

\* data.emotional_arc.map(point => Math.round((point.confidence ?? 0) * 100))
mapScriptArc(arc) ==
    [i \in 1..Len(arc) |-> Num(RoundPercent(Coalesce(arc[i].confidence, Num(0))))]

\* String.prototype.trim over texts written with these characters
WhiteSpace == {" ", "\n"}

RECURSIVE TrimStart(_)
TrimStart(text) ==
    IF text # <<>> /\ Head(text) \in WhiteSpace THEN TrimStart(Tail(text)) ELSE text

RECURSIVE TrimEnd(_)
TrimEnd(text) ==
    IF text # <<>> /\ text[Len(text)] \in WhiteSpace
    THEN TrimEnd(SubSeq(text, 1, Len(text) - 1))
    ELSE text

Trim(text) == TrimEnd(TrimStart(text))

\* encodeURIComponent over URLs written with these characters
EncodeChar(ch) ==
    CASE ch = ":" -> <<"%", "3", "A">>
      [] ch = "/" -> <<"%", "2", "F">>
      [] OTHER -> <<ch>>

RECURSIVE encodeURIComponent(_)
encodeURIComponent(url) ==
    IF url = <<>> THEN <<>> ELSE EncodeChar(Head(url)) \o encodeURIComponent(Tail(url))

\* inputs of the analysis calls
ScriptTexts == {<<>>, <<" ", "\n">>, <<"a">>, <<" ", "a", "\n">>}
MediaFile == [text |-> <<"%", "P", "D", "F">>]
AnalysisInputs ==
    {[type |-> "video", file |-> MediaFile], [type |-> "pdf", file |-> MediaFile]}
    \cup {[type |-> "script", file |-> [text |-> t]] : t \in ScriptTexts}
YouTubeUrls == {<<"h", ":", "/", "v">>}

\* what the backend may answer to an analysis request: confidence in [0,1]
\* (null allowed by VideoUploadResponse), and a body that may lack its arc
ScriptConfidences == {Frac(604, 1000), Frac(800, 1000)}
VideoConfidences == ScriptConfidences \cup {Null}
AudioEmotion ==
    [t |-> "object", dominant_mood |-> "Joy",
     emotional_arc |-> <<[mood |-> "intense"], [mood |-> "unknown"]>>]
ScriptArc == [t |-> "array", points |-> <<[confidence |-> Frac(1, 2)], [confidence |-> Undefined]>>]
VideoResponses ==
    {[confidence |-> c, audio_emotion |-> a] : c \in VideoConfidences, a \in {AudioEmotion, Undefined}}
ScriptResponses ==
    {[confidence |-> c, dominant_mood |-> "Joy", emotional_arc |-> a] :
        c \in ScriptConfidences, a \in {ScriptArc, Undefined}}

\* a call of emotionApi.analyze suspended at its first await
analyzeCall(input) ==
    CASE input.type = "video" ->
            [op |-> "analyze", input |-> input, pc |-> "uploadVideo",
             sent |-> <<Req("/video/upload", [file |-> input.file])>>,
             outcome |-> Pending]
      [] input.type = "pdf" ->
            [op |-> "analyze", input |-> input, pc |-> "uploadPDF",
             sent |-> <<Req("/script/upload-pdf", [file |-> input.file])>>,
             outcome |-> Pending]
      [] OTHER ->
            [op |-> "analyze", input |-> input, pc |-> "fileText",
             sent |-> <<>>, outcome |-> Pending]

\* emotionApi.analyze up to its first await
Analyze(id, input) ==
    /\ CanStart(id)
    /\ calls' = [calls EXCEPT ![id] = analyzeCall(input)]
    /\ UNCHANGED <<localStorage, listeners, mounted, invoked, io, events, view, chatbot, emotion, app, cards>>

\* the script branch testing the raw text instead of the trimmed text
ScriptTextRead_NoTrim(id) ==
    LET c == calls[id]
        scriptText == c.input.file.text
    IN
    /\ c.pc = "fileText"
    /\ calls' = [calls EXCEPT ![id] =
            IF scriptText = <<>>
            THEN [c EXCEPT !.pc = "settled", !.outcome = Rejected("Script file is empty.")]
            ELSE [c EXCEPT !.pc = "analyzeScript",
                           !.sent = <<Req("/script/analyze", [text |-> scriptText])>>]]
    /\ UNCHANGED <<localStorage, listeners, mounted, invoked, io, events, view, chatbot, emotion, app, cards>>

\* await file.text() resumes in the script branch: validate, then post the raw text
ScriptTextRead(id) ==
    LET c == calls[id]
        scriptText == c.input.file.text
    IN
    /\ c.pc = "fileText"
    /\ calls' = [calls EXCEPT ![id] =
            IF Trim(scriptText) = <<>>
            THEN [c EXCEPT !.pc = "settled", !.outcome = Rejected("Script file is empty.")]
            ELSE [c EXCEPT !.pc = "analyzeScript",
                           !.sent = <<Req("/script/analyze", [text |-> scriptText])>>]]
    /\ UNCHANGED <<localStorage, listeners, mounted, invoked, io, events, view, chatbot, emotion, app, cards>>

\* the object literal returned for a video or YouTube response; reading
\* data.audio_emotion.dominant_mood raises when audio_emotion is undefined
videoResult(data, confidence) ==
    IF data.audio_emotion.t # "object"
    THEN Rejected("TypeError")
    ELSE Resolved([dominantMood |-> data.audio_emotion.dominant_mood,
                   intensity |-> inferIntensity(confidence),
                   confidence |-> confidence,
                   emotionalArc |-> mapAudioArcToIntensitySeries(data.audio_emotion.emotional_arc),
                   emotions |-> buildEmotionBreakdown(data.audio_emotion.dominant_mood, confidence)])

\* the object literal returned for a pdf or script response; calling
\* data.emotional_arc.map raises when emotional_arc is undefined
scriptResult(data, confidence) ==
    IF data.emotional_arc.t # "array"
    THEN Rejected("TypeError")
    ELSE Resolved([dominantMood |-> data.dominant_mood,
                   intensity |-> inferIntensity(confidence),
                   confidence |-> confidence,
                   emotionalArc |-> mapScriptArc(data.emotional_arc.points),
                   emotions |-> buildEmotionBreakdown(data.dominant_mood, confidence)])

\* recordVideo without the call of incrementVideos
recordVideo_SampleOnly(w, confidence) == addAnalysisConfidence(w, confidence)

\* metrics effects of the video branch, in program order
recordVideo(w, confidence) ==
    LET w1 == incrementVideos(w) IN
    IF w1.thrown THEN w1 ELSE addAnalysisConfidence(w1, confidence)

\* await uploadVideo(file) resumes with the response body
VideoSucceeded(id, data) ==
    LET c == calls[id]
        confidence == RoundPercent(Coalesce(data.confidence, Num(0)))
        w == recordVideo(World, confidence)
    IN
    /\ c.pc = "uploadVideo"
    /\ calls' = [calls EXCEPT ![id] =
            [c EXCEPT !.pc = "settled",
                      !.sent = Answer(c.sent, data),
                      !.outcome = IF w.thrown THEN Rejected("TypeError")
                                  ELSE videoResult(data, confidence)]]
    /\ Commit(w)
    /\ UNCHANGED <<listeners, mounted, view, chatbot, emotion, app, cards>>

\* await uploadPDF(file) / await analyzeScript(scriptText) resumes with the body
ScriptSucceeded(id, data) ==
    LET c == calls[id]
        confidence == RoundPercent(data.confidence)
        w == addAnalysisConfidence(World, confidence)
    IN
    /\ c.pc \in {"uploadPDF", "analyzeScript"}
    /\ calls' = [calls EXCEPT ![id] =
            [c EXCEPT !.pc = "settled",
                      !.sent = Answer(c.sent, data),
                      !.outcome = IF w.thrown THEN Rejected("TypeError")
                                  ELSE scriptResult(data, confidence)]]
    /\ Commit(w)
    /\ UNCHANGED <<listeners, mounted, view, chatbot, emotion, app, cards>>

\* a call of emotionApi.analyzeYouTube suspended at its await
analyzeYouTubeCall(url) ==
    [op |-> "analyzeYouTube", input |-> [url |-> url], pc |-> "analyzeYouTubeVideo",
     sent |-> <<Req("/video/youtube", [url |-> encodeURIComponent(url)])>>,
     outcome |-> Pending]

\* emotionApi.analyzeYouTube up to its await
AnalyzeYouTube(id, url) ==
    /\ CanStart(id)
    /\ calls' = [calls EXCEPT ![id] = analyzeYouTubeCall(url)]
    /\ UNCHANGED <<localStorage, listeners, mounted, invoked, io, events, view, chatbot, emotion, app, cards>>

\* await analyzeYouTubeVideo(url) resumes with the response body
YouTubeSucceeded(id, data) ==
    LET c == calls[id]
        confidence == RoundPercent(Coalesce(data.confidence, Num(0)))
        w == recordVideo(World, confidence)
    IN
    /\ c.pc = "analyzeYouTubeVideo"
    /\ calls' = [calls EXCEPT ![id] =
            [c EXCEPT !.pc = "settled",
                      !.sent = Answer(c.sent, data),
                      !.outcome = IF w.thrown THEN Rejected("TypeError")
                                  ELSE videoResult(data, confidence)]]
    /\ Commit(w)
    /\ UNCHANGED <<listeners, mounted, view, chatbot, emotion, app, cards>>

\* AnalysisFailed that posts the request once more instead of giving up
AnalysisFailed_Retry(id) ==
    LET c == calls[id] IN
    /\ c.pc \in {"uploadVideo", "uploadPDF", "analyzeScript", "analyzeYouTubeVideo"}
    /\ calls' = [calls EXCEPT ![id] =
            [c EXCEPT !.sent = Append(SettleLast(c.sent, "failed"),
                                      Req(c.sent[Len(c.sent)].path, c.sent[Len(c.sent)].body))]]
    /\ UNCHANGED <<localStorage, listeners, mounted, invoked, io, events, view, chatbot, emotion, app, cards>>

\* the awaited analysis request rejects (network failure, non-2xx answer)
AnalysisFailed(id) ==
    LET c == calls[id] IN
    /\ c.pc \in {"uploadVideo", "uploadPDF", "analyzeScript", "analyzeYouTubeVideo"}
    /\ calls' = [calls EXCEPT ![id] =
            [c EXCEPT !.pc = "settled",
                      !.sent = SettleLast(c.sent, "failed"),
                      !.outcome = Rejected("transport")]]
    /\ UNCHANGED <<localStorage, listeners, mounted, invoked, io, events, view, chatbot, emotion, app, cards>>

(* --------------------------- component state --------------------------- *)

\* the texts ChatbotSection itself puts into the conversation
Greeting == "Hello! I'm your AI assistant. How can I help you today?"
ErrorPlaceholder == "Sorry, I encountered an error. Please try again."

\* ChatbotSection's useState initial values; waiting holds the adapter calls
\* handleSendMessage is suspended on, placeholders counts the error messages
\* it put into the conversation
ChatbotInit ==
    [chatMode |-> "general", responseMode |-> "solve", llmProvider |-> "local",
     apiKey |-> "", pdfFile |-> NoFile, input |-> <<>>, isLoading |-> FALSE,
     waiting |-> {}, placeholders |-> 0,
     messages |-> <<[role |-> "assistant", content |-> Greeting, run |-> 0]>>]

\* EmotionAnalysisSection's useState initial values; awaiting is the adapter
\* call handleAnalyze is suspended on (0: none), logged the console.error texts
EmotionInit ==
    [selectedType |-> "<null>", uploadedFile |-> Null, youtubeUrl |-> <<>>,
     isAnalyzing |-> FALSE, result |-> Null, awaiting |-> 0, logged |-> <<>>]

\* the build-time value of import.meta.env.VITE_API_BASE: not set, or a string
NoEnv == [kind |-> "undefined"]
EnvValue(chars) == [kind |-> "string", val |-> chars]

\* App's useState initial values; the Settings field starts with the fallback
\* URL.  env is the build-time VITE_API_BASE; restored tells whether the mount
\* effect has run; me and auth are the positions of the current-user and the
\* login / signup request, logout the number of logout requests in flight,
\* requested the requests App has issued through apiClient and settled how
\* those that returned to their handler ended.
AppInit ==
    [env |-> NoEnv, apiBaseUrl |-> <<"h", ":", "/", "1", "2", "7">>,
     userName |-> "", userEmail |-> "", isProfileOpen |-> FALSE, isLoginOpen |-> FALSE,
     authError |-> "",
     restored |-> FALSE, me |-> "idle", auth |-> "idle", logout |-> 0, requested |-> {},
     settled |-> {}]

\* KPICards' useState initial values; started and finished count the
\* loadMetrics runs of the instance
CardInit ==
    [loading |-> TRUE, documentsAnalyzed |-> 0, conversationCount |-> Num(0),
     videosProcessed |-> Num(0), aiAccuracy |-> Num(0), started |-> 0, finished |-> 0]

CardsInit == [s \in Subs |-> CardInit]

(* ------------------------------ the page ------------------------------- *)

\* every mode, provider, credential and document with the default response
\* mode, and the strict response mode on the path that sends it
ChatInputs ==
    [message : {"hi"}, mode : ChatModes, responseMode : {"solve"},
     provider : ChatProviders, apiKey : {NoKey, "sk-1"}, pdfContext : {NoFile, "doc.pdf"}]
    \cup [message : {"hi"}, mode : {"pdf"}, responseMode : {"strict"},
          provider : ChatProviders, apiKey : {NoKey}, pdfContext : {"doc.pdf"}]

\* The dashboard page: its KPICards handlers are registered, the durable
\* store is a fresh browser profile's, and no adapter call has been issued.
Init ==
    /\ localStorage = EmptyStorage
    /\ listeners = Subs
    /\ mounted = [s \in Subs |-> "mounted"]
    /\ invoked = [s \in Subs |-> 0]
    /\ io = [reads |-> 0, writes |-> 0, dispatches |-> 0]
    /\ events = [conversation |-> 0, videoProcessed |-> 0, analysisSample |-> 0, confidenceSum |-> 0,
                 notified |-> {}]
    /\ calls = [id \in CallIds |-> IdleCall]
    /\ view = [state |-> "none"]
    /\ chatbot = ChatbotInit
    /\ emotion = EmotionInit
    /\ app = AppInit
    /\ cards = CardsInit

\* chat and analysis calls issued, suspended and resumed in any order
Next ==
    \/ \E id \in CallIds, input \in ChatInputs : SendMessage(id, input)
    \/ \E id \in CallIds, ok \in BOOLEAN : UploadSettled(id, ok)
    \/ \E id \in CallIds, data \in ChatReplies("/chat") \cup ChatReplies("/rag-query") : ChatSucceeded(id, data)
    \/ \E id \in CallIds : ChatFailed(id)
    \/ \E id \in CallIds, input \in AnalysisInputs : Analyze(id, input)
    \/ \E id \in CallIds : ScriptTextRead(id)
    \/ \E id \in CallIds, data \in VideoResponses : VideoSucceeded(id, data)
    \/ \E id \in CallIds, data \in ScriptResponses : ScriptSucceeded(id, data)
    \/ \E id \in CallIds, url \in YouTubeUrls : AnalyzeYouTube(id, url)
    \/ \E id \in CallIds, data \in VideoResponses : YouTubeSucceeded(id, data)
    \/ \E id \in CallIds : AnalysisFailed(id)

Spec == Init /\ [][Next]_vars

(* ------------------- the page with handlers coming and going ----------- *)

\* setAuthToken(token), called after a login or signup answered: an empty
\* token is ignored
AuthTokens == {<<>>, <<"t">>}
SetAuthToken(token) ==
    /\ localStorage' = IF token = <<>> THEN localStorage
                       ELSE [localStorage EXCEPT ![AUTH_TOKEN_KEY] = Text(token)]
    /\ UNCHANGED <<listeners, mounted, invoked, io, events, calls, view, chatbot, emotion, app, cards>>

\* clearAuthToken(), called by handleLogout and by a failed session restore
ClearAuthToken ==
    /\ localStorage' = [localStorage EXCEPT ![AUTH_TOKEN_KEY] = NoItem]
    /\ UNCHANGED <<listeners, mounted, invoked, io, events, calls, view, chatbot, emotion, app, cards>>

\* App.saveSettings: the trimmed base URL, or the fallback when that is empty
FallbackBaseUrl == <<"h", ":", "/", "1", "2", "7">>
BaseUrlInputs == {<<" ">>, <<" ", "h", ":", "/", "b">>}
SaveSettings(apiBaseUrl) ==
    /\ localStorage' = [localStorage EXCEPT ![API_BASE_KEY] =
            IF Trim(apiBaseUrl) # <<>> THEN Text(Trim(apiBaseUrl)) ELSE Text(FallbackBaseUrl)]
    /\ UNCHANGED <<listeners, mounted, invoked, io, events, calls, view, chatbot, emotion, app, cards>>

\* No KPICards is mounted yet; handlers register and unregister, the user logs
\* in and out and saves settings, while general chats and YouTube analyses
\* record their events.
InitEvents ==
    /\ localStorage = EmptyStorage
    /\ listeners = {}
    /\ mounted = [s \in Subs |-> "never"]
    /\ invoked = [s \in Subs |-> 0]
    /\ io = [reads |-> 0, writes |-> 0, dispatches |-> 0]
    /\ events = [conversation |-> 0, videoProcessed |-> 0, analysisSample |-> 0, confidenceSum |-> 0,
                 notified |-> {}]
    /\ calls = [id \in CallIds |-> IdleCall]
    /\ view = [state |-> "none"]
    /\ chatbot = ChatbotInit
    /\ emotion = EmotionInit
    /\ app = AppInit
    /\ cards = CardsInit

\* answers that carry every field of VideoUploadResponse
FullVideoResponses == {data \in VideoResponses : data.audio_emotion = AudioEmotion}

GeneralChat ==
    [message |-> "hi", mode |-> "general", responseMode |-> "solve",
     provider |-> "local", apiKey |-> NoKey, pdfContext |-> NoFile]

NextEvents ==
    \/ \E s \in Subs : Subscribe(s)
    \/ \E s \in Subs : Unsubscribe(s)
    \/ \E token \in AuthTokens : SetAuthToken(token)
    \/ ClearAuthToken
    \/ \E apiBaseUrl \in BaseUrlInputs : SaveSettings(apiBaseUrl)
    \/ \E id \in CallIds : SendMessage(id, GeneralChat)
    \/ \E id \in CallIds, data \in ChatReplies("/chat") : ChatSucceeded(id, data)
    \/ \E id \in CallIds, url \in YouTubeUrls : AnalyzeYouTube(id, url)
    \/ \E id \in CallIds, data \in FullVideoResponses : YouTubeSucceeded(id, data)

SpecEvents == InitEvents /\ [][NextEvents]_vars

(* ---------------- reading whatever the durable store holds ------------- *)

\* getDashboardMetrics calls made in one run
MaxReads == 2

\* values a field of a stored object may hold
StoredFieldValues == {Undefined, Null} \cup {Num(k) : k \in 0..MaxStored}

\* what an earlier page, another version or the user may have left under the key
StoredContents ==
    {NoItem, EmptyText, Garbage, JsonStringify(Null)}
    \cup {JsonStringify(Num(k)) : k \in 0..MaxStored}
    \cup {JsonStringify(Obj(f)) : f \in [MetricFields -> StoredFieldValues]}

InitRead ==
    /\ localStorage \in {[EmptyStorage EXCEPT ![METRICS_KEY] = c] : c \in StoredContents}
    /\ listeners = Subs
    /\ mounted = [s \in Subs |-> "mounted"]
    /\ invoked = [s \in Subs |-> 0]
    /\ io = [reads |-> 0, writes |-> 0, dispatches |-> 0]
    /\ events = [conversation |-> 0, videoProcessed |-> 0, analysisSample |-> 0, confidenceSum |-> 0,
                 notified |-> {}]
    /\ calls = [id \in CallIds |-> IdleCall]
    /\ view = [state |-> "none"]
    /\ chatbot = ChatbotInit
    /\ emotion = EmotionInit
    /\ app = AppInit
    /\ cards = CardsInit

\* getDashboardMetrics that stores the default record when it finds none
GetDashboardMetrics_Creating ==
    /\ io.reads < MaxReads
    /\ view' = [state |-> "returned", result |-> getDashboardMetrics(localStorage[METRICS_KEY])]
    /\ io' = [io EXCEPT !.reads = @ + 1]
    /\ localStorage' = IF localStorage[METRICS_KEY] = NoItem
                       THEN [localStorage EXCEPT ![METRICS_KEY] = JsonStringify(ZeroMetrics)]
                       ELSE localStorage
    /\ UNCHANGED <<listeners, mounted, invoked, events, calls, chatbot, emotion, app, cards>>

\* a caller (loadMetrics in KPICards) evaluates getDashboardMetrics()
GetDashboardMetrics ==
    /\ io.reads < MaxReads
    /\ view' = [state |-> "returned", result |-> getDashboardMetrics(localStorage[METRICS_KEY])]
    /\ io' = [io EXCEPT !.reads = @ + 1]
    /\ UNCHANGED <<localStorage, listeners, mounted, invoked, events, calls, chatbot, emotion, app, cards>>

NextRead == GetDashboardMetrics

SpecRead == InitRead /\ [][NextRead]_vars

(* ------------------------- the store on its own ------------------------- *)

\* confidence values handed to addAnalysisConfidence
SampleInputs == {80}

\* incrementConversation() called directly; each operation reads the store once,
\* and an exception leaves what was done before it
IncrementConversation ==
    /\ io.reads < MaxReads
    /\ Commit(incrementConversation(World))
    /\ UNCHANGED <<listeners, mounted, calls, view, chatbot, emotion, app, cards>>

\* incrementVideos() called directly
IncrementVideos ==
    /\ io.reads < MaxReads
    /\ Commit(incrementVideos(World))
    /\ UNCHANGED <<listeners, mounted, calls, view, chatbot, emotion, app, cards>>

\* addAnalysisConfidence(confidencePercent) called directly
AddAnalysisConfidence(confidencePercent) ==
    /\ io.reads < MaxReads
    /\ Commit(addAnalysisConfidence(World, confidencePercent))
    /\ UNCHANGED <<listeners, mounted, calls, view, chatbot, emotion, app, cards>>

\* The record operations and the view, from whatever an earlier page left.
NextStore ==
    \/ GetDashboardMetrics
    \/ IncrementConversation
    \/ IncrementVideos
    \/ \E c \in SampleInputs : AddAnalysisConfidence(c)

SpecStore == InitRead /\ [][NextStore]_vars

(* ----------------------- the chat section of the page ------------------ *)

\* what the user may type as API key and as message, and pick as document
ApiKeyInputs == {"", "sk-1"}
MessageInputs == {<<" ">>, <<"h", "i">>}
PickedFiles == {[name |-> "doc.pdf", type |-> "application/pdf"],
                [name |-> "notes.txt", type |-> "text/plain"]}

setChatMode(mode) ==
    /\ chatbot' = [chatbot EXCEPT !.chatMode = mode]
    /\ UNCHANGED <<localStorage, listeners, mounted, invoked, io, events, calls, view, emotion, app, cards>>

setLLMProvider(provider) ==
    /\ chatbot' = [chatbot EXCEPT !.llmProvider = provider]
    /\ UNCHANGED <<localStorage, listeners, mounted, invoked, io, events, calls, view, emotion, app, cards>>

\* the key field's onChange; the field is rendered for the external provider only
setApiKey(key) ==
    /\ chatbot.llmProvider = "external"
    /\ chatbot' = [chatbot EXCEPT !.apiKey = key]
    /\ UNCHANGED <<localStorage, listeners, mounted, invoked, io, events, calls, view, emotion, app, cards>>

\* handlePdfUpload: only a file of type application/pdf is kept; the file
\* input is rendered in pdf mode only
handlePdfUpload(file) ==
    /\ chatbot.chatMode = "pdf"
    /\ chatbot' = IF file.type = "application/pdf"
                  THEN [chatbot EXCEPT !.pdfFile = file.name]
                  ELSE chatbot
    /\ UNCHANGED <<localStorage, listeners, mounted, invoked, io, events, calls, view, emotion, app, cards>>

\* the message field's onChange
setInput(text) ==
    /\ chatbot' = [chatbot EXCEPT !.input = text]
    /\ UNCHANGED <<localStorage, listeners, mounted, invoked, io, events, calls, view, emotion, app, cards>>

\* ChatRequestOf that passes the typed key whatever the provider
ChatRequestOf_AlwaysKey(ui) ==
    [message |-> ui.input, mode |-> ui.chatMode, responseMode |-> ui.responseMode,
     provider |-> ui.llmProvider, apiKey |-> ui.apiKey, pdfContext |-> ui.pdfFile]

\* the input handleSendMessage hands to chatbotApi.sendMessage
ChatRequestOf(ui) ==
    [message |-> ui.input, mode |-> ui.chatMode, responseMode |-> ui.responseMode,
     provider |-> ui.llmProvider,
     apiKey |-> IF ui.llmProvider = "external" THEN ui.apiKey ELSE NoKey,
     pdfContext |-> ui.pdfFile]

\* handleSendMessage up to its await: nothing for a blank input; otherwise the
\* user's message is appended, the input cleared, isLoading set and the
\* adapter call with number id entered
sendMessageRun(id) ==
    /\ IF Trim(chatbot.input) = <<>>
       THEN UNCHANGED <<chatbot, calls>>
       ELSE /\ chatbot' = [chatbot EXCEPT
                    !.messages = Append(@, [role |-> "user", content |-> chatbot.input,
                                            run |-> id]),
                    !.input = <<>>, !.isLoading = TRUE, !.waiting = @ \cup {id}]
            /\ calls' = [calls EXCEPT ![id] = sendMessageCall(ChatRequestOf(chatbot))]
    /\ UNCHANGED <<localStorage, listeners, mounted, invoked, io, events, view, emotion, app, cards>>

\* handleSendMessage entered by the Send button, which is disabled while isLoading
handleSendMessage(id) ==
    /\ CanStart(id)
    /\ ~chatbot.isLoading
    /\ sendMessageRun(id)

\* handleSendMessage entered by the Enter key of the message field, which is
\* not disabled while isLoading
handleKeyDown(id) ==
    /\ CanStart(id)
    /\ sendMessageRun(id)

\* the continuation that shows the error's own text instead of the placeholder
SendMessageReturned_RawError(id) ==
    /\ id \in chatbot.waiting
    /\ calls[id].pc = "settled"
    /\ chatbot' = [chatbot EXCEPT
            !.messages = Append(@, [role |-> "assistant",
                                    content |-> IF calls[id].outcome.state = "resolved"
                                                THEN calls[id].outcome.value.response
                                                ELSE calls[id].outcome.error,
                                    run |-> id]),
            !.waiting = @ \ {id},
            !.isLoading = FALSE,
            !.placeholders = IF calls[id].outcome.state = "rejected" THEN @ + 1 ELSE @]
    /\ UNCHANGED <<localStorage, listeners, mounted, invoked, io, events, calls, view, emotion, app, cards>>

\* handleSendMessage resumes after its await: the assistant's message with the
\* reply on success, with the placeholder text on failure, isLoading reset
SendMessageReturned(id) ==
    /\ id \in chatbot.waiting
    /\ calls[id].pc = "settled"
    /\ chatbot' = [chatbot EXCEPT
            !.messages = Append(@, [role |-> "assistant",
                                    content |-> IF calls[id].outcome.state = "resolved"
                                                THEN calls[id].outcome.value.response
                                                ELSE ErrorPlaceholder,
                                    run |-> id]),
            !.waiting = @ \ {id},
            !.isLoading = FALSE,
            !.placeholders = IF calls[id].outcome.state = "rejected" THEN @ + 1 ELSE @]
    /\ UNCHANGED <<localStorage, listeners, mounted, invoked, io, events, calls, view, emotion, app, cards>>

\* the chat section from its first render: the user types, toggles and
\* attaches at any time, and sends when the previous message was answered
NextChatUI ==
    \/ \E mode \in ChatModes : setChatMode(mode)
    \/ \E provider \in ChatProviders : setLLMProvider(provider)
    \/ \E key \in ApiKeyInputs : setApiKey(key)
    \/ \E file \in PickedFiles : handlePdfUpload(file)
    \/ \E text \in MessageInputs : setInput(text)
    \/ \E id \in CallIds : handleSendMessage(id)
    \/ \E id \in CallIds : SendMessageReturned(id)
    \/ \E id \in CallIds, ok \in BOOLEAN : UploadSettled(id, ok)
    \/ \E id \in CallIds, data \in ChatReplies("/chat") \cup ChatReplies("/rag-query") : ChatSucceeded(id, data)
    \/ \E id \in CallIds : ChatFailed(id)

SpecChatUI == Init /\ [][NextChatUI]_vars

\* the chat section when messages are also sent with the Enter key, so that a
\* message may be sent while an earlier one is unanswered
NextChatKeys ==
    \/ \E mode \in ChatModes : setChatMode(mode)
    \/ \E file \in PickedFiles : handlePdfUpload(file)
    \/ \E text \in MessageInputs : setInput(text)
    \/ \E id \in CallIds : handleSendMessage(id)
    \/ \E id \in CallIds : handleKeyDown(id)
    \/ \E id \in CallIds : SendMessageReturned(id)
    \/ \E id \in CallIds, ok \in BOOLEAN : UploadSettled(id, ok)
    \/ \E id \in CallIds, data \in ChatReplies("/chat") \cup ChatReplies("/rag-query") : ChatSucceeded(id, data)
    \/ \E id \in CallIds : ChatFailed(id)

SpecChatKeys == Init /\ [][NextChatKeys]_vars

\* every request the transport sent settles, and a settled promise resumes
\* the handler that awaits it
ChatSettles ==
    /\ \A id \in CallIds : WF_vars(\E ok \in BOOLEAN : UploadSettled(id, ok))
    /\ \A id \in CallIds : WF_vars(ChatFailed(id) \/ \E data \in ChatReplies("/chat") \cup ChatReplies("/rag-query") : ChatSucceeded(id, data))
    /\ \A id \in CallIds : WF_vars(SendMessageReturned(id))

SpecChatKeysFair == SpecChatKeys /\ ChatSettles

(* --------------------- the analysis section of the page ---------------- *)

\* console.error calls one session of the analysis section may make
MaxLogged == 2

FileKinds == {"video", "script", "pdf"}
SelectedTypes == {"<null>", "youtube"} \cup FileKinds

\* files the user may pick and texts the user may type into the URL field
UiFiles == {MediaFile, [text |-> <<" ", "\n">>]}
UrlInputs == {<<>>, <<" ">>, <<" ", "h", ":", "/", "v">>}

\* handleFileUpload(e, type): a cancelled dialog (no file) changes nothing
handleFileUpload(type, file) ==
    /\ emotion' = IF file # Null
                  THEN [emotion EXCEPT !.selectedType = type, !.uploadedFile = file,
                                       !.result = Null]
                  ELSE emotion
    /\ UNCHANGED <<localStorage, listeners, mounted, invoked, io, events, calls, view, chatbot, app, cards>>

\* the YouTube tile's onClick
SelectYouTube ==
    /\ emotion' = [emotion EXCEPT !.selectedType = "youtube", !.uploadedFile = Null,
                                  !.result = Null]
    /\ UNCHANGED <<localStorage, listeners, mounted, invoked, io, events, calls, view, chatbot, app, cards>>

\* the URL field's onChange; the field is rendered for the YouTube kind only
setYoutubeUrl(url) ==
    /\ emotion.selectedType = "youtube"
    /\ emotion' = [emotion EXCEPT !.youtubeUrl = url]
    /\ UNCHANGED <<localStorage, listeners, mounted, invoked, io, events, calls, view, chatbot, app, cards>>

\* handleAnalyze whose URL test forgets to trim
handleAnalyze_NoTrim(id) ==
    /\ ~emotion.isAnalyzing
    /\ Len(emotion.logged) < MaxLogged
    /\ CanStart(id)
    /\ CASE emotion.selectedType = "<null>" ->
                UNCHANGED <<emotion, calls>>
         [] emotion.selectedType = "youtube" /\ emotion.youtubeUrl = <<>> ->
                /\ emotion' = [emotion EXCEPT
                        !.logged = Append(@, "Please enter a YouTube URL.")]
                /\ UNCHANGED calls
         [] emotion.selectedType = "youtube" /\ emotion.youtubeUrl # <<>> ->
                /\ emotion' = [emotion EXCEPT !.isAnalyzing = TRUE, !.awaiting = id]
                /\ calls' = [calls EXCEPT ![id] = analyzeYouTubeCall(Trim(emotion.youtubeUrl))]
         [] emotion.selectedType \in FileKinds /\ emotion.uploadedFile = Null ->
                /\ emotion' = [emotion EXCEPT
                        !.logged = Append(@, "Please upload a file first.")]
                /\ UNCHANGED calls
         [] OTHER ->
                /\ emotion' = [emotion EXCEPT !.isAnalyzing = TRUE, !.awaiting = id]
                /\ calls' = [calls EXCEPT ![id] =
                        analyzeCall([type |-> emotion.selectedType, file |-> emotion.uploadedFile])]
    /\ UNCHANGED <<localStorage, listeners, mounted, invoked, io, events, view, chatbot, app, cards>>

\* handleAnalyze up to its await: nothing for no selection; a validation
\* error is thrown, caught, logged and isAnalyzing reset within the same run;
\* otherwise the adapter call with number id is entered.  Both buttons that
\* call it are disabled while isAnalyzing.
handleAnalyze(id) ==
    /\ ~emotion.isAnalyzing
    /\ Len(emotion.logged) < MaxLogged
    /\ CanStart(id)
    /\ CASE emotion.selectedType = "<null>" ->
                UNCHANGED <<emotion, calls>>
         [] emotion.selectedType = "youtube" /\ Trim(emotion.youtubeUrl) = <<>> ->
                /\ emotion' = [emotion EXCEPT
                        !.logged = Append(@, "Please enter a YouTube URL.")]
                /\ UNCHANGED calls
         [] emotion.selectedType = "youtube" /\ Trim(emotion.youtubeUrl) # <<>> ->
                /\ emotion' = [emotion EXCEPT !.isAnalyzing = TRUE, !.awaiting = id]
                /\ calls' = [calls EXCEPT ![id] = analyzeYouTubeCall(Trim(emotion.youtubeUrl))]
         [] emotion.selectedType \in FileKinds /\ emotion.uploadedFile = Null ->
                /\ emotion' = [emotion EXCEPT
                        !.logged = Append(@, "Please upload a file first.")]
                /\ UNCHANGED calls
         [] OTHER ->
                /\ emotion' = [emotion EXCEPT !.isAnalyzing = TRUE, !.awaiting = id]
                /\ calls' = [calls EXCEPT ![id] =
                        analyzeCall([type |-> emotion.selectedType, file |-> emotion.uploadedFile])]
    /\ UNCHANGED <<localStorage, listeners, mounted, invoked, io, events, view, chatbot, app, cards>>

\* handleAnalyze resumes after its await: setResult on success, console.error
\* on failure, and setIsAnalyzing(false) in both cases
AnalyzeReturned(id) ==
    /\ emotion.awaiting = id
    /\ calls[id].pc = "settled"
    /\ emotion' = IF calls[id].outcome.state = "resolved"
                  THEN [emotion EXCEPT !.result = calls[id].outcome.value,
                                       !.isAnalyzing = FALSE, !.awaiting = 0]
                  ELSE [emotion EXCEPT !.logged = Append(@, calls[id].outcome.error),
                                       !.isAnalyzing = FALSE, !.awaiting = 0]
    /\ UNCHANGED <<localStorage, listeners, mounted, invoked, io, events, calls, view, chatbot, app, cards>>

\* The section in any state its useState variables can hold (the rendered
\* buttons narrow the states handleAnalyze is clicked in), nothing in flight.
InitAnalysisUI ==
    /\ localStorage = EmptyStorage
    /\ listeners = Subs
    /\ mounted = [s \in Subs |-> "mounted"]
    /\ invoked = [s \in Subs |-> 0]
    /\ io = [reads |-> 0, writes |-> 0, dispatches |-> 0]
    /\ events = [conversation |-> 0, videoProcessed |-> 0, analysisSample |-> 0, confidenceSum |-> 0,
                 notified |-> {}]
    /\ calls = [id \in CallIds |-> IdleCall]
    /\ view = [state |-> "none"]
    /\ chatbot = ChatbotInit
    /\ emotion \in {[EmotionInit EXCEPT !.selectedType = t, !.uploadedFile = f, !.youtubeUrl = u] :
                        t \in SelectedTypes, f \in UiFiles \cup {Null}, u \in UrlInputs}
    /\ app = AppInit
    /\ cards = CardsInit

\* one complete answer of each kind
UiVideoResponses == {data \in FullVideoResponses : data.confidence = Frac(800, 1000)}
UiScriptResponses ==
    {data \in ScriptResponses : data.confidence = Frac(604, 1000) /\ data.emotional_arc = ScriptArc}

NextAnalysisUI ==
    \/ \E type \in FileKinds, file \in UiFiles \cup {Null} : handleFileUpload(type, file)
    \/ SelectYouTube
    \/ \E url \in UrlInputs : setYoutubeUrl(url)
    \/ \E id \in CallIds : handleAnalyze(id)
    \/ \E id \in CallIds : AnalyzeReturned(id)
    \/ \E id \in CallIds : ScriptTextRead(id)
    \/ \E id \in CallIds, data \in UiVideoResponses : VideoSucceeded(id, data)
    \/ \E id \in CallIds, data \in UiScriptResponses : ScriptSucceeded(id, data)
    \/ \E id \in CallIds, data \in UiVideoResponses : YouTubeSucceeded(id, data)
    \/ \E id \in CallIds : AnalysisFailed(id)

SpecAnalysisUI == InitAnalysisUI /\ [][NextAnalysisUI]_vars

(* ------------------------------ the App shell --------------------------- *)

\* logout requests in flight at one time
MaxLogouts == 2

\* values the build may have baked in as VITE_API_BASE
EnvValues == {NoEnv, EnvValue(<<>>), EnvValue(<<"h", ":", "/", "e">>)}

\* apiClient's baseURL: API_BASE_URL || 'http://127.0.0.1:8000', fixed when
\* the module is loaded
apiClient(env) ==
    IF env.kind = "string" /\ env.val # <<>> THEN env.val ELSE FallbackBaseUrl

\* a request handed to apiClient: axios prefixes the path with the baseURL
Sent(path) == [base |-> apiClient(app.env), path |-> path]

\* getAuthToken() is falsy: nothing stored, or the empty string
NoToken(store) ==
    IF store[AUTH_TOKEN_KEY].kind = "text" THEN store[AUTH_TOKEN_KEY].val = <<>> ELSE TRUE

\* setAuthToken(token): an empty token is ignored
setAuthToken(store, token) ==
    IF token = <<>> THEN store ELSE [store EXCEPT ![AUTH_TOKEN_KEY] = Text(token)]

\* clearAuthToken()
clearAuthToken(store) == [store EXCEPT ![AUTH_TOKEN_KEY] = NoItem]

\* what the backend answers to login, signup and the current-user request
AuthResponses == {[token |-> t, full_name |-> "Ada", email |-> "ada@x"] : t \in AuthTokens}
AuthUsers == {[full_name |-> "Ada", email |-> "ada@x"]}

\* what the user may have typed into the login form
AuthModes == {"login", "signup"}
NameInputs == {<<"A">>, <<"A", "d">>}
CredentialInputs == {<<" ">>, <<"a">>}

\* the mount effect: the saved base URL goes into the Settings field; with a
\* stored token the current-user request is issued, without one nothing is
AppMounted ==
    /\ ~app.restored
    /\ app' = [app EXCEPT
            !.restored = TRUE,
            !.apiBaseUrl = IF localStorage[API_BASE_KEY].kind = "text"
                              /\ localStorage[API_BASE_KEY].val # <<>>
                           THEN localStorage[API_BASE_KEY].val
                           ELSE FallbackBaseUrl,
            !.me = IF NoToken(localStorage) THEN "idle" ELSE "pending",
            !.requested = IF NoToken(localStorage) THEN @ ELSE @ \cup {Sent("/auth/me")}]
    /\ UNCHANGED <<localStorage, listeners, mounted, invoked, io, events, calls, view, chatbot, emotion, cards>>

\* getCurrentUser() resolves: .then sets the user's name and email
CurrentUserSucceeded(user) ==
    /\ app.me = "pending"
    /\ app' = [app EXCEPT !.me = "idle", !.userName = user.full_name,
                          !.userEmail = user.email,
                          !.settled = @ \cup {[path |-> "/auth/me", ok |-> TRUE]}]
    /\ UNCHANGED <<localStorage, listeners, mounted, invoked, io, events, calls, view, chatbot, emotion, cards>>

\* getCurrentUser() rejects: .catch removes the token and empties the user
CurrentUserFailed ==
    /\ app.me = "pending"
    /\ localStorage' = clearAuthToken(localStorage)
    /\ app' = [app EXCEPT !.me = "idle", !.userName = "", !.userEmail = "",
                          !.settled = @ \cup {[path |-> "/auth/me", ok |-> FALSE]}]
    /\ UNCHANGED <<listeners, mounted, invoked, io, events, calls, view, chatbot, emotion, cards>>

\* the Login button, rendered while userName is empty, opens the login form
OpenLogin ==
    /\ app.restored
    /\ app.userName = ""
    /\ app' = [app EXCEPT !.isLoginOpen = TRUE, !.authError = ""]
    /\ UNCHANGED <<localStorage, listeners, mounted, invoked, io, events, calls, view, chatbot, emotion, cards>>

\* the Cancel button of the login form
CloseLogin ==
    /\ app.isLoginOpen
    /\ app' = [app EXCEPT !.isLoginOpen = FALSE]
    /\ UNCHANGED <<localStorage, listeners, mounted, invoked, io, events, calls, view, chatbot, emotion, cards>>

\* handleAuthSubmit up to its await: the validation of the form, then the
\* login or signup request; the submit button is disabled while one is pending
handleAuthSubmit(authMode, loginName, loginEmail, loginPassword) ==
    /\ app.isLoginOpen
    /\ app.auth = "idle"
    /\ app' =
        IF Trim(loginEmail) = <<>> \/ Trim(loginPassword) = <<>>
        THEN [app EXCEPT !.authError = "Email and password are required."]
        ELSE IF authMode = "signup" /\ Len(Trim(loginName)) < 2
        THEN [app EXCEPT !.authError = "Full name must be at least 2 characters."]
        ELSE [app EXCEPT !.authError = "", !.auth = "pending",
                         !.requested = @ \cup {Sent(IF authMode = "signup"
                                                    THEN "/auth/signup" ELSE "/auth/login")}]
    /\ UNCHANGED <<localStorage, listeners, mounted, invoked, io, events, calls, view, chatbot, emotion, cards>>

\* handleAuthSubmit resumes with the response: the token is stored (unless it
\* is empty) and the user's name and email are shown
AuthSucceeded(response) ==
    /\ app.auth = "pending"
    /\ localStorage' = setAuthToken(localStorage, response.token)
    /\ app' = [app EXCEPT !.auth = "idle", !.userName = response.full_name,
                          !.userEmail = response.email, !.isLoginOpen = FALSE,
                          !.settled = @ \cup {[path |-> "/auth/login", ok |-> TRUE]}]
    /\ UNCHANGED <<listeners, mounted, invoked, io, events, calls, view, chatbot, emotion, cards>>

\* handleAuthSubmit resumes with a rejection: only the error text changes
AuthFailed ==
    /\ app.auth = "pending"
    /\ app' = [app EXCEPT !.auth = "idle", !.authError = "Authentication failed.",
                          !.settled = @ \cup {[path |-> "/auth/login", ok |-> FALSE]}]
    /\ UNCHANGED <<localStorage, listeners, mounted, invoked, io, events, calls, view, chatbot, emotion, cards>>

\* the avatar button, rendered while userName is not empty, toggles the profile menu
ToggleProfile ==
    /\ app.userName # ""
    /\ app' = [app EXCEPT !.isProfileOpen = ~@]
    /\ UNCHANGED <<localStorage, listeners, mounted, invoked, io, events, calls, view, chatbot, emotion, cards>>

\* handleLogout up to its await: the logout request; the button is part of
\* the profile menu and is not disabled while a request is pending
handleLogout ==
    /\ app.isProfileOpen
    /\ app.logout < MaxLogouts
    /\ app' = [app EXCEPT !.logout = @ + 1, !.requested = @ \cup {Sent("/auth/logout")}]
    /\ UNCHANGED <<localStorage, listeners, mounted, invoked, io, events, calls, view, chatbot, emotion, cards>>

\* the continuation that cleans up only when the backend confirmed the logout
LogoutSettled_OnlyOnSuccess(ok) ==
    /\ app.logout > 0
    /\ localStorage' = IF ok THEN clearAuthToken(localStorage) ELSE localStorage
    /\ app' = IF ok
              THEN [app EXCEPT !.logout = @ - 1, !.userName = "", !.userEmail = "",
                               !.isProfileOpen = FALSE,
                               !.settled = @ \cup {[path |-> "/auth/logout", ok |-> ok]}]
              ELSE [app EXCEPT !.logout = @ - 1,
                               !.settled = @ \cup {[path |-> "/auth/logout", ok |-> ok]}]
    /\ UNCHANGED <<listeners, mounted, invoked, io, events, calls, view, chatbot, emotion, cards>>

\* handleLogout resumes, the request answered or failed (the rejection is
\* swallowed): the token is removed, the user emptied, the menu closed
LogoutSettled(ok) ==
    /\ app.logout > 0
    /\ localStorage' = clearAuthToken(localStorage)
    /\ app' = [app EXCEPT !.logout = @ - 1, !.userName = "", !.userEmail = "",
                          !.isProfileOpen = FALSE,
                          !.settled = @ \cup {[path |-> "/auth/logout", ok |-> ok]}]
    /\ UNCHANGED <<listeners, mounted, invoked, io, events, calls, view, chatbot, emotion, cards>>

\* the Settings field's onChange
setApiBaseUrl(text) ==
    /\ app.restored
    /\ app' = [app EXCEPT !.apiBaseUrl = text]
    /\ UNCHANGED <<localStorage, listeners, mounted, invoked, io, events, calls, view, chatbot, emotion, cards>>

\* the Save button of Settings
saveSettings ==
    /\ app.restored
    /\ SaveSettings(app.apiBaseUrl)

\* the page is loaded again: the module and the component start afresh with
\* the same build, the durable store stays, and what was in flight is dropped
PageLoad ==
    /\ app.restored
    /\ app' = [AppInit EXCEPT !.env = app.env, !.requested = app.requested,
                              !.settled = app.settled]
    /\ UNCHANGED <<localStorage, listeners, mounted, invoked, io, events, calls, view, chatbot, emotion, cards>>

\* the first load of a build, with what earlier sessions may have stored
InitApp ==
    /\ localStorage \in {[EmptyStorage EXCEPT ![AUTH_TOKEN_KEY] = t, ![API_BASE_KEY] = b] :
            t \in {NoItem, Text(<<"t">>)}, b \in {NoItem, Text(<<"h", ":", "/", "b">>)}}
    /\ listeners = {}
    /\ mounted = [s \in Subs |-> "never"]
    /\ invoked = [s \in Subs |-> 0]
    /\ io = [reads |-> 0, writes |-> 0, dispatches |-> 0]
    /\ events = [conversation |-> 0, videoProcessed |-> 0, analysisSample |-> 0, confidenceSum |-> 0,
                 notified |-> {}]
    /\ calls = [id \in CallIds |-> IdleCall]
    /\ view = [state |-> "none"]
    /\ chatbot = ChatbotInit
    /\ emotion = EmotionInit
    /\ app \in {[AppInit EXCEPT !.env = e] : e \in EnvValues}
    /\ cards = CardsInit

NextApp ==
    \/ AppMounted
    \/ \E user \in AuthUsers : CurrentUserSucceeded(user)
    \/ CurrentUserFailed
    \/ OpenLogin
    \/ CloseLogin
    \/ \E authMode \in AuthModes, loginName \in NameInputs,
          loginEmail \in CredentialInputs, loginPassword \in CredentialInputs :
            handleAuthSubmit(authMode, loginName, loginEmail, loginPassword)
    \/ \E response \in AuthResponses : AuthSucceeded(response)
    \/ AuthFailed
    \/ ToggleProfile
    \/ handleLogout
    \/ \E ok \in BOOLEAN : LogoutSettled(ok)
    \/ \E text \in BaseUrlInputs : setApiBaseUrl(text)
    \/ saveSettings
    \/ PageLoad

SpecApp == InitApp /\ [][NextApp]_vars

(* ------------------------------ the KPI cards --------------------------- *)

\* unique_documents in the answers to GET /index-stats
IndexStats == {[unique_documents |-> 3]}

\* records an earlier session of the page may have left
EarlierRecords ==
    {NoItem,
     JsonStringify(Obj([totalConversations |-> Num(2), videosProcessed |-> Num(1),
                        analyzedCount |-> Num(1), analyzedConfidenceSum |-> Num(80)]))}

\* loadMetrics runs of instance s that are suspended on getIndexStats(): the
\* one the mount effect started and one per invocation of the handler, less
\* those that resumed
RefreshesInFlight(s) == cards[s].started + invoked[s] - cards[s].finished

\* the mount effect: void loadMetrics(), which posts GET /index-stats, then
\* addEventListener; the page renders one KPICards at a time, so an instance
\* mounts when the one before it was unmounted
MountKPICards(s) ==
    /\ mounted[s] = "never"
    /\ IF s = 1 THEN TRUE ELSE mounted[s - 1] = "removed"
    /\ cards' = [cards EXCEPT ![s].started = 1]
    /\ listeners' = listeners \cup {s}
    /\ mounted' = [mounted EXCEPT ![s] = "mounted"]
    /\ UNCHANGED <<localStorage, invoked, io, events, calls, view, chatbot, emotion, app>>

\* what loadMetrics sets after its await, given the outcome of getIndexStats;
\* when getDashboardMetrics raises, the setters after it are not reached
Loaded(card, ok, stats, localMetrics) ==
    LET counted == [card EXCEPT !.documentsAnalyzed =
                        IF ok THEN stats.unique_documents ELSE 0]
    IN  IF localMetrics.thrown
        THEN counted
        ELSE [counted EXCEPT !.conversationCount = localMetrics.totalConversations,
                             !.videosProcessed = localMetrics.videosProcessed,
                             !.aiAccuracy = localMetrics.aiAccuracyScore,
                             !.loading = FALSE]

\* loadMetrics that gives up when the index statistics cannot be fetched
LoadMetricsResumed_GiveUp(s, ok, stats) ==
    /\ RefreshesInFlight(s) > 0
    /\ cards' = [cards EXCEPT ![s] =
            IF mounted[s] = "mounted" /\ ok
            THEN [Loaded(@, ok, stats, getDashboardMetrics(localStorage[METRICS_KEY]))
                    EXCEPT !.finished = @ + 1]
            ELSE [@ EXCEPT !.finished = @ + 1]]
    /\ io' = [io EXCEPT !.reads = @ + 1]
    /\ UNCHANGED <<localStorage, listeners, mounted, invoked, events, calls, view, chatbot, emotion, app>>

\* a loadMetrics run of instance s resumes with the answer to GET /index-stats
\* (ok) or its failure, reads the local metrics and shows them; the setters of
\* an instance that was unmounted meanwhile change nothing
LoadMetricsResumed(s, ok, stats) ==
    /\ RefreshesInFlight(s) > 0
    /\ cards' = [cards EXCEPT ![s] =
            IF mounted[s] = "mounted"
            THEN [Loaded(@, ok, stats, getDashboardMetrics(localStorage[METRICS_KEY]))
                    EXCEPT !.finished = @ + 1]
            ELSE [@ EXCEPT !.finished = @ + 1]]
    /\ io' = [io EXCEPT !.reads = @ + 1]
    /\ UNCHANGED <<localStorage, listeners, mounted, invoked, events, calls, view, chatbot, emotion, app>>

\* the KPICards of the dashboard tab, and the one rendered when the tab is entered again
Dashboard == {1, 2}

\* The dashboard: its KPICards mounts and unmounts at any time while general
\* chats and YouTube analyses record their events and the index statistics
\* arrive or fail.
InitCards ==
    /\ localStorage \in {[EmptyStorage EXCEPT ![METRICS_KEY] = r] : r \in EarlierRecords}
    /\ listeners = {}
    /\ mounted = [s \in Subs |-> "never"]
    /\ invoked = [s \in Subs |-> 0]
    /\ io = [reads |-> 0, writes |-> 0, dispatches |-> 0]
    /\ events = [conversation |-> 0, videoProcessed |-> 0, analysisSample |-> 0, confidenceSum |-> 0,
                 notified |-> {}]
    /\ calls = [id \in CallIds |-> IdleCall]
    /\ view = [state |-> "none"]
    /\ chatbot = ChatbotInit
    /\ emotion = EmotionInit
    /\ app = AppInit
    /\ cards = CardsInit

NextCards ==
    \/ \E s \in Dashboard : MountKPICards(s)
    \/ \E s \in Dashboard : Unsubscribe(s)
    \/ \E s \in Dashboard, ok \in BOOLEAN, stats \in IndexStats : LoadMetricsResumed(s, ok, stats)
    \/ \E id \in CallIds : SendMessage(id, GeneralChat)
    \/ \E id \in CallIds, data \in ChatReplies("/chat") : ChatSucceeded(id, data)
    \/ \E id \in CallIds, url \in YouTubeUrls : AnalyzeYouTube(id, url)
    \/ \E id \in CallIds, data \in UiVideoResponses : YouTubeSucceeded(id, data)

SpecCards == InitCards /\ [][NextCards]_vars

(* ----------------- the result helpers applied to any input ------------- *)

\* how far beyond 0..100 a confidence percent handed to the helpers may lie
Overshoot == 50
\* longest emotional_arc of a response
MaxArc == 2

Percents == (0 - Overshoot)..(100 + Overshoot)
Moods == {"Joy", "Fear"}

\* mood tokens of an audio arc: the six known ones, an unknown one, and one
\* that names an inherited member of every object
MoodTokens == {"intense", "energetic", "dramatic", "dark", "calm", "neutral", "unknown", "constructor"}

RECURSIVE ArcsUpTo(_)
ArcsUpTo(n) ==
    IF n = 0 THEN {<<>>}
    ELSE ArcsUpTo(n - 1)
         \cup {Append(arc, [mood |-> m]) : arc \in {a \in ArcsUpTo(n - 1) : Len(a) = n - 1},
                                           m \in MoodTokens}

\* inferIntensity(c) is evaluated
InferIntensity(c) ==
    /\ view' = [state |-> "applied", fn |-> "inferIntensity", c |-> c,
                result |-> inferIntensity(c)]
    /\ UNCHANGED <<localStorage, listeners, mounted, invoked, io, events, calls, chatbot, emotion, app, cards>>

\* buildEmotionBreakdown(mood, c) is evaluated
BuildEmotionBreakdown(mood, c) ==
    /\ view' = [state |-> "applied", fn |-> "buildEmotionBreakdown", mood |-> mood, c |-> c,
                result |-> buildEmotionBreakdown(mood, c)]
    /\ UNCHANGED <<localStorage, listeners, mounted, invoked, io, events, calls, chatbot, emotion, app, cards>>

\* mapAudioArcToIntensitySeries(arc) is evaluated
MapAudioArcToIntensitySeries(arc) ==
    /\ view' = [state |-> "applied", fn |-> "mapAudioArcToIntensitySeries", arc |-> arc,
                result |-> mapAudioArcToIntensitySeries(arc)]
    /\ UNCHANGED <<localStorage, listeners, mounted, invoked, io, events, calls, chatbot, emotion, app, cards>>

NextHelpers ==
    \/ \E c \in Percents : InferIntensity(c)
    \/ \E mood \in Moods, c \in Percents : BuildEmotionBreakdown(mood, c)
    \/ \E arc \in ArcsUpTo(MaxArc) : MapAudioArcToIntensitySeries(arc)

SpecHelpers == Init /\ [][NextHelpers]_vars

(* ------------- one analysis of each kind, any backend confidence ------- *)

\* backend confidences in [0,1], in steps of 0.01
Confidences == {Frac(k, 100) : k \in 0..100}

PercentVideoResponses ==
    {[confidence |-> c,
      audio_emotion |-> [t |-> "object", dominant_mood |-> m,
                         emotional_arc |-> <<[mood |-> "calm"]>>]] :
        c \in Confidences \cup {Null}, m \in Moods}

PercentScriptResponses ==
    {[confidence |-> c, dominant_mood |-> m, emotional_arc |-> ScriptArc] :
        c \in Confidences, m \in Moods}

PercentInputs ==
    {[type |-> "video", file |-> MediaFile], [type |-> "pdf", file |-> MediaFile],
     [type |-> "script", file |-> [text |-> <<"a">>]]}

\* the first call of the page is an analysis of any kind, answered with any
\* confidence
NextConfidence ==
    \/ \E input \in PercentInputs : Analyze(1, input)
    \/ ScriptTextRead(1)
    \/ \E data \in PercentVideoResponses : VideoSucceeded(1, data)
    \/ \E data \in PercentScriptResponses : ScriptSucceeded(1, data)
    \/ \E url \in YouTubeUrls : AnalyzeYouTube(1, url)
    \/ \E data \in PercentVideoResponses : YouTubeSucceeded(1, data)

SpecConfidence == Init /\ [][NextConfidence]_vars

(* --------------------------- reading the state ------------------------- *)

\* a field of the record stored in ls, as readMetrics returns it
StoredField(ls, k) == Get(readMetrics(ls[METRICS_KEY]), k)

LastReq(c) == c.sent[Len(c.sent)]

PendingRequests(c) == {i \in 1..Len(c.sent) : c.sent[i].status = "pending"}

AnalysisAwaits == {"uploadVideo", "uploadPDF", "analyzeScript", "analyzeYouTubeVideo"}

IsAnalysis(c) == c.op \in {"analyze", "analyzeYouTube"}

IsVideoKind(c) == IF c.op = "analyze" THEN c.input.type = "video" ELSE c.op = "analyzeYouTube"

IsScriptKind(c) == IF c.op = "analyze" THEN c.input.type = "script" ELSE FALSE

\* the chat calls whose chat request the backend answered
AnsweredChats ==
    {id \in CallIds : calls[id].op = "sendMessage" /\ calls[id].pc = "settled"
                      /\ LastReq(calls[id]).path \in {"/chat", "/rag-query"}
                      /\ LastReq(calls[id]).status = "ok"}

\* no metric field, no counter of the store and no handler changed in this step
MetricsUntouched ==
    /\ localStorage' = localStorage
    /\ io' = io
    /\ invoked' = invoked

\* what EmotionAnalysisSection renders from: the console is not part of the page
Visible(e) ==
    [selectedType |-> e.selectedType, uploadedFile |-> e.uploadedFile,
     youtubeUrl |-> e.youtubeUrl, isAnalyzing |-> e.isAnalyzing, result |-> e.result]

\* a run of handleAnalyze ends in its catch block in this step
AnalysisRunFails == Len(emotion'.logged) > Len(emotion.logged)

\* the input of adapter call c is the section's current selection
ProducedFromSelection(c, e) ==
    IF c.op = "analyze"
    THEN e.selectedType = c.input.type /\ e.uploadedFile = c.input.file
    ELSE e.selectedType = "youtube"

\* the handleSendMessage runs whose adapter call has not settled yet
ChatsInFlight == {id \in chatbot.waiting : calls[id].pc # "settled"}

\* the messages of the conversation that run id of handleSendMessage appended
MessagesOf(id, role) ==
    {i \in 1..Len(chatbot.messages) :
        chatbot.messages[i].run = id /\ chatbot.messages[i].role = role}

\* the assistant's message a settled adapter call must lead to
AssistantMessage(id) ==
    [role |-> "assistant",
     content |-> IF calls[id].outcome.state = "resolved"
                 THEN calls[id].outcome.value.response
                 ELSE ErrorPlaceholder,
     run |-> id]

\* a step is a run of handleSendMessage up to its await, from either entry
SendStep(id) == handleSendMessage(id) \/ handleKeyDown(id)

\* the base URL in force: the saved one, else the build's, else the fallback
BaseUrlInForce ==
    IF localStorage[API_BASE_KEY].kind = "text" THEN localStorage[API_BASE_KEY].val
    ELSE IF app.env.kind = "string" /\ app.env.val # <<>> THEN app.env.val
    ELSE FallbackBaseUrl

\* the local metrics a KPICards instance displays
Displayed(card) ==
    [thrown |-> FALSE, totalConversations |-> card.conversationCount,
     videosProcessed |-> card.videosProcessed, aiAccuracyScore |-> card.aiAccuracy]

(* ------------------------------- claims -------------------------------- *)

\* C1, step: a sendChat call whose request is answered adds exactly one to
\* totalConversations and changes no other field; one whose request fails
\* changes no field and broadcasts nothing.
C1_Step ==
    \A id \in CallIds :
        (calls[id].pc = "sendChat" /\ calls'[id].pc = "settled") =>
            IF LastReq(calls'[id]).status = "ok"
            THEN /\ StoredField(localStorage', "totalConversations")
                        = Num(StoredField(localStorage, "totalConversations").n + 1)
                 /\ \A k \in MetricFields \ {"totalConversations"} :
                        StoredField(localStorage', k) = StoredField(localStorage, k)
            ELSE MetricsUntouched

\* C1, total: totalConversations is its initial value (0, the empty store) plus
\* the number of chat calls completed successfully so far.
C1_Total ==
    StoredField(localStorage, "totalConversations") = Num(Cardinality(AnsweredChats))

\* C1: every successful sendChat (general or contextual) increases
\* totalConversations by exactly one and nothing else, every failed one leaves
\* the metrics alone and broadcasts nothing, so the stored count always equals
\* the number of successfully completed chat calls.
C1_ChatCountsOnce == [](C1_Total) /\ [][C1_Step]_vars

\* C1 witness: a contextual chat has succeeded and a general chat has failed.
C1_Witness ==
    \E a, b \in CallIds :
        /\ a \in AnsweredChats /\ calls[a].input.mode = "pdf"
        /\ calls[b].op = "sendMessage" /\ calls[b].input.mode = "general"
        /\ calls[b].outcome = Rejected("transport")
        /\ StoredField(localStorage, "totalConversations") = Num(1)

\* C2, state: per sendMessage call, an upload is issued iff the mode is pdf and
\* a document is attached; at most one request is in flight; a chat request
\* that follows an upload follows a completed, successful one; after a failed
\* upload there is no chat request and the call is rejected with its error.
C2_State ==
    \A id \in CallIds :
        LET c == calls[id] IN
        c.op = "sendMessage" =>
            /\ ("/upload-pdf" \in PathsOf(c))
                    <=> (c.input.mode = "pdf" /\ c.input.pdfContext # NoFile)
            /\ Cardinality(PendingRequests(c)) <= 1
            /\ \A i \in 1..Len(c.sent) :
                    (c.sent[i].path # "/upload-pdf" /\ "/upload-pdf" \in PathsOf(c)) =>
                        /\ i = 2
                        /\ c.sent[1].path = "/upload-pdf"
                        /\ c.sent[1].status = "ok"
                        /\ c.sent[i].path = "/rag-query"
            /\ (c.sent[1].path = "/upload-pdf" /\ c.sent[1].status = "failed") =>
                    /\ Len(c.sent) = 1
                    /\ c.outcome = Rejected("transport")

\* C2, step: the step in which an upload fails changes no metric.
C2_Step ==
    \A id \in CallIds :
        (calls[id].pc = "uploadChatPDF" /\ calls'[id].pc = "settled") => MetricsUntouched

\* C2: sendMessage uploads the context document iff mode is pdf and one is
\* attached, issues /rag-query only after that upload succeeded and never
\* alongside it, and a failed upload ends the call with the error, without a
\* chat request and without a metric change.
C2_UploadBeforeChat == [](C2_State) /\ [][C2_Step]_vars

\* C2 witness: one call has posted /rag-query after its upload succeeded and
\* another was rejected by a failed upload.
C2_Witness ==
    \E a, b \in CallIds :
        /\ calls[a].op = "sendMessage" /\ Len(calls[a].sent) = 2
        /\ calls[a].sent[1].status = "ok" /\ calls[a].sent[2].path = "/rag-query"
        /\ calls[b].op = "sendMessage" /\ Len(calls[b].sent) = 1
        /\ calls[b].sent[1].path = "/upload-pdf" /\ calls[b].sent[1].status = "failed"
        /\ calls[b].outcome = Rejected("transport")

\* C3, step: an analysis that returns a result adds one to videosProcessed for
\* video and YouTube and nothing for pdf and script, adds one to analyzedCount
\* and the returned confidence to analyzedConfidenceSum; no analysis step
\* changes totalConversations.
C3_Step ==
    \A id \in CallIds :
        (calls[id].pc \in AnalysisAwaits /\ calls'[id].pc = "settled") =>
            /\ StoredField(localStorage', "totalConversations")
                    = StoredField(localStorage, "totalConversations")
            /\ calls'[id].outcome.state = "resolved" =>
                /\ StoredField(localStorage', "videosProcessed")
                        = Num(StoredField(localStorage, "videosProcessed").n
                              + (IF IsVideoKind(calls[id]) THEN 1 ELSE 0))
                /\ StoredField(localStorage', "analyzedCount")
                        = Num(StoredField(localStorage, "analyzedCount").n + 1)
                /\ StoredField(localStorage', "analyzedConfidenceSum")
                        = Num(StoredField(localStorage, "analyzedConfidenceSum").n
                              + calls'[id].outcome.value.confidence)

\* C3: on every successful analysis videosProcessed grows by one exactly for
\* the video and youtubeLink kinds, analyzedCount grows by one and
\* analyzedConfidenceSum by the returned confidence for every kind, and
\* totalConversations is never changed by an analysis.
C3_AnalysisSideEffects == [][C3_Step]_vars

\* C3 witness: a video-kind analysis and a pdf analysis have both returned.
C3_Witness ==
    \E a, b \in CallIds :
        /\ IsAnalysis(calls[a]) /\ IsVideoKind(calls[a]) /\ calls[a].outcome.state = "resolved"
        /\ calls[b].op = "analyze" /\ calls[b].input.type = "pdf"
        /\ calls[b].outcome.state = "resolved"
        /\ StoredField(localStorage, "videosProcessed") = Num(1)
        /\ StoredField(localStorage, "analyzedCount") = Num(2)

\* C4: an analysis call that ends in failure (validation, transport, or an
\* exception while the response is normalized) leaves the stored metrics
\* unchanged and broadcasts nothing.
C4_FailedAnalysisLeavesMetrics ==
    [][\A id \in CallIds :
          (IsAnalysis(calls'[id]) /\ calls[id].outcome.state = "pending"
           /\ calls'[id].outcome.state = "rejected") => MetricsUntouched]_vars

\* C5: starting from an empty store, after any record events (and logins,
\* logouts and saved settings) getDashboardMetrics returns the number of
\* conversation events, the number of videoProcessed events, and the sum of
\* the sampled confidences over their number (0 when there is no sample).
C5_ViewMatchesEvents ==
    LET v == getDashboardMetrics(localStorage[METRICS_KEY]) IN
    /\ ~v.thrown
    /\ v.totalConversations = Num(events.conversation)
    /\ v.videosProcessed = Num(events.videoProcessed)
    /\ v.aiAccuracyScore = IF events.analysisSample > 0
                           THEN Frac(events.confidenceSum, events.analysisSample)
                           ELSE Num(0)

\* C5 witness: samples 80 and 60 were recorded, after a login and a saved
\* base URL, and the view shows 70.
C5_Witness ==
    /\ events.analysisSample = 2
    /\ \E a, b \in CallIds :
          /\ calls[a].outcome.state = "resolved" /\ calls[a].outcome.value.confidence = 80
          /\ calls[b].outcome.state = "resolved" /\ calls[b].outcome.value.confidence = 60
    /\ localStorage[AUTH_TOKEN_KEY] # NoItem
    /\ localStorage[API_BASE_KEY] # NoItem
    /\ getDashboardMetrics(localStorage[METRICS_KEY]).aiAccuracyScore = Num(70)

\* C5 witness, second example: one conversation event gives totalConversations 1.
C5_WitnessConversation ==
    /\ events.conversation = 1
    /\ getDashboardMetrics(localStorage[METRICS_KEY]).totalConversations = Num(1)

\* the calls that returned a result to their caller
Returned == {id \in CallIds : calls[id].outcome.state = "resolved"}

RECURSIVE SumConfidence(_)
SumConfidence(ids) ==
    IF ids = {} THEN 0
    ELSE LET id == CHOOSE x \in ids : TRUE
         IN  calls[id].outcome.value.confidence + SumConfidence(ids \ {id})

\* C6: whatever the interleaving of overlapping chat and analysis calls, the
\* stored record equals the totals over the successful calls: chats returned,
\* video-kind analyses returned, analyses returned and their confidences.
C6_NoLostUpdate ==
    LET chats == {id \in Returned : calls[id].op = "sendMessage"}
        analyses == {id \in Returned : IsAnalysis(calls[id])}
        videos == {id \in analyses : IsVideoKind(calls[id])}
    IN  /\ StoredField(localStorage, "totalConversations") = Num(Cardinality(chats))
        /\ StoredField(localStorage, "videosProcessed") = Num(Cardinality(videos))
        /\ StoredField(localStorage, "analyzedCount") = Num(Cardinality(analyses))
        /\ StoredField(localStorage, "analyzedConfidenceSum") = Num(SumConfidence(analyses))

\* what one record operation must leave behind when applied to the page as it
\* is: one read, one write, one dispatch that reaches every handler once, its
\* own fields changed by dConv, dVid, dCount, dSum and nothing else
OneRecordOp(w, dConv, dVid, dCount, dSum) ==
    /\ ~w.thrown
    /\ w.io = [reads |-> io.reads + 1, writes |-> io.writes + 1, dispatches |-> io.dispatches + 1]
    /\ w.invoked = [s \in Subs |-> IF s \in listeners THEN invoked[s] + 1 ELSE invoked[s]]
    /\ \A k \in StorageKeys \ {METRICS_KEY} : w.localStorage[k] = localStorage[k]
    /\ StoredField(w.localStorage, "totalConversations")
            = Num(StoredField(localStorage, "totalConversations").n + dConv)
    /\ StoredField(w.localStorage, "videosProcessed")
            = Num(StoredField(localStorage, "videosProcessed").n + dVid)
    /\ StoredField(w.localStorage, "analyzedCount")
            = Num(StoredField(localStorage, "analyzedCount").n + dCount)
    /\ StoredField(w.localStorage, "analyzedConfidenceSum")
            = Num(StoredField(localStorage, "analyzedConfidenceSum").n + dSum)

\* confidences a sample may carry
SamplePercents == {0, 60, 80, 100}

\* C7: in every state the page reaches, each record operation reads the
\* durable record once, applies only its own event's mutation, writes the
\* record back once and broadcasts exactly one notification.
C7_RecordOpFrame ==
    /\ OneRecordOp(incrementConversation(World), 1, 0, 0, 0)
    /\ OneRecordOp(incrementVideos(World), 0, 1, 0, 0)
    /\ \A c \in SamplePercents : OneRecordOp(addAnalysisConfidence(World, c), 0, 0, 1, c)

\* C7 witness: record operations of all three kinds have acted on the record.
C7_Witness ==
    /\ events.conversation >= 1
    /\ events.videoProcessed >= 1
    /\ events.analysisSample >= 1
    /\ io.writes = 3
    /\ io.dispatches = 3

\* C8, state: exactly the mounted handlers are registered; a removed one is not.
C8_State == \A s \in Subs : (s \in listeners) <=> (mounted[s] = "mounted")

\* C8, step: every broadcast of a step invokes each registered handler once
\* and no other handler; removing a handler again changes no registration.
C8_Step ==
    /\ \A s \in Subs :
          invoked'[s] = invoked[s]
                + (IF s \in listeners THEN io'.dispatches - io.dispatches ELSE 0)
    /\ \A s \in Subs :
          (mounted[s] = "removed" /\ Unsubscribe(s)) => listeners' = listeners

\* C8: every broadcast invokes each currently registered subscriber exactly
\* once; an unsubscribed one is invoked by no later broadcast while the others
\* still are; unsubscribing twice changes nothing for the others.
C8_Subscribers == [](C8_State) /\ [][C8_Step]_vars

\* C8 witness: two handlers were both invoked by a first event; the first was
\* removed, and a second event invoked only the other.
C8_Witness ==
    /\ MaxSubs >= 2
    /\ mounted[1] = "removed" /\ mounted[2] = "mounted"
    /\ io.dispatches = 2
    /\ invoked[1] = 1 /\ invoked[2] = 2

\* a well-formed metrics record: JSON text of an object with four numbers
WellFormedItem(item) ==
    /\ item.kind = "json"
    /\ item.val.t = "object"
    /\ \A k \in MetricFields : item.val.f[k].t = "number"

ZeroView ==
    [thrown |-> FALSE, totalConversations |-> Num(0), videosProcessed |-> Num(0),
     aiAccuracyScore |-> Num(0)]

\* C9: getDashboardMetrics never throws, and returns the all-zero view when
\* the key is missing, unparseable, or parses to something that is not a
\* well-formed metrics record.
C9_ReadNeverThrows ==
    view.state = "returned" =>
        /\ ~view.result.thrown
        /\ ~WellFormedItem(localStorage[METRICS_KEY]) => view.result = ZeroView

\* C10, state: a script analysis whose trimmed text is empty never has a
\* request and ends rejected by the validation; one whose trimmed text is not
\* empty sends exactly one request, to /script/analyze, with the raw text.
C10_State ==
    \A id \in CallIds :
        LET c == calls[id] IN
        (c.op = "analyze" /\ IsScriptKind(c)) =>
            IF Trim(c.input.file.text) = <<>>
            THEN /\ c.sent = <<>>
                 /\ c.pc # "fileText" => c.outcome = Rejected("Script file is empty.")
            ELSE /\ c.pc = "fileText" => c.sent = <<>>
                 /\ c.pc # "fileText" =>
                        /\ Len(c.sent) = 1
                        /\ c.sent[1].path = "/script/analyze"
                        /\ c.sent[1].body = [text |-> c.input.file.text]

\* C10, step: the step that rejects an empty script changes no metric.
C10_Step ==
    \A id \in CallIds :
        (calls[id].pc = "fileText" /\ calls'[id].pc = "settled") => MetricsUntouched

\* C10: an empty (after trimming) script fails validation with no backend
\* request and no metric change; a non-empty one sends exactly one request to
\* /script/analyze carrying the raw, untrimmed text.
C10_EmptyScript == [](C10_State) /\ [][C10_Step]_vars

\* C10 witness: a whitespace-only script was rejected without a request, and a
\* script with surrounding whitespace was sent as it is.
C10_Witness ==
    \E a, b \in CallIds :
        /\ calls[a].op = "analyze" /\ IsScriptKind(calls[a])
        /\ calls[a].input.file.text = <<" ", "\n">>
        /\ calls[a].outcome = Rejected("Script file is empty.")
        /\ calls[a].sent = <<>>
        /\ calls[b].op = "analyze" /\ IsScriptKind(calls[b])
        /\ Len(calls[b].sent) = 1
        /\ calls[b].sent[1].body = [text |-> <<" ", "a", "\n">>]

\* the selection fails handleAnalyze's validation: the YouTube kind with a URL
\* that is blank after trimming, or a file kind with no file
InvalidSelection ==
    \/ emotion.selectedType = "youtube" /\ Trim(emotion.youtubeUrl) = <<>>
    \/ emotion.selectedType \in FileKinds /\ emotion.uploadedFile = Null

ValidationMessage ==
    IF emotion.selectedType = "youtube"
    THEN "Please enter a YouTube URL." ELSE "Please upload a file first."

\* C11, step: a run of handleAnalyze on an invalid selection raises the
\* validation error of its kind and nothing else: no call is entered, no
\* request issued, no metric changed, no notification broadcast, and the
\* handler is left idle (nothing is in flight that could retry).
C11_Step ==
    \A id \in CallIds :
        (InvalidSelection /\ handleAnalyze(id)) =>
            /\ emotion'.logged = Append(emotion.logged, ValidationMessage)
            /\ calls' = calls
            /\ MetricsUntouched
            /\ events' = events
            /\ ~emotion'.isAnalyzing /\ emotion'.awaiting = 0

\* C11, state: every analysis call that was entered carries a file, or a
\* URL that is trimmed and not blank; a request is in flight only while
\* handleAnalyze awaits that very call.
C11_State ==
    \A id \in CallIds :
        LET c == calls[id] IN
        /\ c.op = "analyze" => c.input.file # Null
        /\ c.op = "analyzeYouTube" => (c.input.url # <<>> /\ Trim(c.input.url) = c.input.url)
        /\ (c.op # "none" /\ c.pc # "settled") => emotion.awaiting = id

\* C11: in handleAnalyze a blank (after trimming) YouTube URL, or a missing
\* file for a file kind, raises the validation error before any network call:
\* no backend request is issued, no metric changes, and nothing is retried.
C11_ValidationBeforeNetwork == [](C11_State) /\ [][C11_Step]_vars

\* C11 witness: both validation errors were raised, no request was ever issued
\* and the metrics record was never written.
C11_Witness ==
    /\ emotion.logged = <<"Please upload a file first.", "Please enter a YouTube URL.">>
    /\ \A id \in CallIds : calls[id].op = "none"
    /\ io.writes = 0
    /\ localStorage[METRICS_KEY] = NoItem

\* C12: for every integer confidence c in 0..100, inferIntensity(c) is High
\* iff c >= 80, Medium iff 60 <= c < 80 and Low iff c < 60; so 0 and 59 are
\* Low, 60 and 79 Medium, 80, 81 and 100 High.
C12_IntensityBands ==
    (view.state = "applied" /\ view.fn = "inferIntensity" /\ view.c \in 0..100) =>
        /\ view.result \in {"High", "Medium", "Low"}
        /\ (view.result = "High") <=> (view.c >= 80)
        /\ (view.result = "Medium") <=> (60 <= view.c /\ view.c < 80)
        /\ (view.result = "Low") <=> (view.c < 60)
        /\ view.c \in {0, 59} => view.result = "Low"
        /\ view.c \in {60, 79} => view.result = "Medium"
        /\ view.c \in {80, 81, 100} => view.result = "High"

\* C12 witness: the boundary 80 was classified, as High.
C12_Witness ==
    /\ view.state = "applied" /\ view.fn = "inferIntensity"
    /\ view.c = 80 /\ view.result = "High"

\* C13: for every mood and every integer confidence c, also outside 0..100
\* (-10, 150), buildEmotionBreakdown(mood, c) returns exactly three entries
\* named mood, Secondary, Residual in this order, each with a value >= 5, and
\* the first with a value in 20..95.
C13_BreakdownShape ==
    (view.state = "applied" /\ view.fn = "buildEmotionBreakdown") =>
        /\ Len(view.result) = 3
        /\ view.result[1].name = view.mood
        /\ view.result[2].name = "Secondary"
        /\ view.result[3].name = "Residual"
        /\ \A i \in 1..3 : view.result[i].value >= 5
        /\ view.result[1].value \in 20..95

\* C13 witness: a confidence far above 100 was clamped to 95, which leaves the
\* two other entries at their floor of 5.
C13_Witness ==
    /\ view.state = "applied" /\ view.fn = "buildEmotionBreakdown"
    /\ view.c = 150
    /\ view.result[1].value = 95 /\ view.result[2].value = 5 /\ view.result[3].value = 5

\* C13 witness, below the range: -10 is raised to 20.
C13_WitnessLow ==
    /\ view.state = "applied" /\ view.fn = "buildEmotionBreakdown"
    /\ view.c = -10
    /\ view.result[1].value = 20

\* dominant, secondary and residual as the specification computes them
BreakdownValues(c) ==
    LET dominant == Min(95, Max(20, c))
        secondary == Max(5, MathRound(6 * (100 - dominant), 10))
        residual == Max(5, 100 - dominant - secondary)
    IN  <<dominant, secondary, residual>>

\* C14: for every integer confidence percent c, buildEmotionBreakdown emits
\* dominant = min(95, max(20, c)), secondary = max(5, round(0.6 * (100 -
\* dominant))) and residual = max(5, 100 - dominant - secondary), in this
\* order, labeled dominantMood, Secondary, Residual; the result depends on
\* (mood, c) alone.
C14_BreakdownFormula ==
    (view.state = "applied" /\ view.fn = "buildEmotionBreakdown") =>
        /\ <<view.result[1].value, view.result[2].value, view.result[3].value>>
                = BreakdownValues(view.c)
        /\ <<view.result[1].name, view.result[2].name, view.result[3].name>>
                = <<view.mood, "Secondary", "Residual">>
        /\ view.result = buildEmotionBreakdown(view.mood, view.c)

\* C14 witness: confidence 60 gives 60, round(24) = 24 and 16.
C14_Witness ==
    /\ view.state = "applied" /\ view.fn = "buildEmotionBreakdown"
    /\ view.c = 60 /\ view.mood = "Joy"
    /\ view.result[1].value = 60 /\ view.result[2].value = 24 /\ view.result[3].value = 16

\* the value the mood table assigns to a token, 50 for every other token
TableValue(mood) ==
    CASE mood = "intense" -> 95
      [] mood = "energetic" -> 85
      [] mood = "dramatic" -> 80
      [] mood = "dark" -> 70
      [] mood = "calm" -> 40
      [] OTHER -> 50

\* C15: for every sequence of mood entries, mapAudioArcToIntensitySeries
\* returns a sequence of the same length and order whose entries are 95 for
\* intense, 85 for energetic, 80 for dramatic, 70 for dark, 40 for calm, 50 for
\* neutral and 50 for every other token whatsoever (unknown, constructor, ...).
C15_MoodTable ==
    (view.state = "applied" /\ view.fn = "mapAudioArcToIntensitySeries") =>
        /\ Len(view.result) = Len(view.arc)
        /\ \A i \in 1..Len(view.arc) : view.result[i] = Num(TableValue(view.arc[i].mood))

\* the integer 100 * confidence of a response (0 for a null confidence)
PercentOf(data) ==
    IF data.confidence = Null THEN 0
    ELSE CHOOSE k \in 0..100 : Frac(k, 100) = data.confidence

\* the dominant mood a response names
MoodOf(c, data) == IF IsVideoKind(c) THEN data.audio_emotion.dominant_mood ELSE data.dominant_mood

\* C16: for every analysis kind and every backend confidence in [0,1] in
\* steps of 0.01, the result's confidence is the integer 100 * confidence,
\* lies in 0..100 and is the value added to analyzedConfidenceSum; the
\* intensity is inferIntensity of it and emotions[0] carries the backend's
\* dominant mood; a null confidence of a video or YouTube response gives 0 and
\* Low; pdf with 0.90 and Joy gives 90, High and (Joy, 90).
C16_ConfidencePercent ==
    LET c == calls[1] IN
    (IsAnalysis(c) /\ c.pc = "settled" /\ LastReq(c).status = "ok") =>
        LET data == LastReq(c).data
            k == PercentOf(data)
        IN  /\ c.outcome.state = "resolved"
            /\ c.outcome.value.confidence = k
            /\ c.outcome.value.confidence \in 0..100
            /\ StoredField(localStorage, "analyzedConfidenceSum") = Num(k)
            /\ events.confidenceSum = k
            /\ c.outcome.value.intensity = inferIntensity(k)
            /\ c.outcome.value.emotions[1].name = MoodOf(c, data)
            /\ c.outcome.value.dominantMood = MoodOf(c, data)
            /\ data.confidence = Null =>
                    (c.outcome.value.confidence = 0 /\ c.outcome.value.intensity = "Low")
            /\ (c.op = "analyze" /\ c.input.type = "pdf" /\ data.confidence = Frac(90, 100)
                /\ data.dominant_mood = "Joy") =>
                    /\ c.outcome.value.confidence = 90
                    /\ c.outcome.value.intensity = "High"
                    /\ c.outcome.value.emotions[1].name = "Joy"
                    /\ c.outcome.value.emotions[1].value = 90

\* C16 witness: a pdf analysis answered with confidence 0.90 and mood Joy
\* returned 90, High and (Joy, 90), and 90 was added to the sum.
C16_Witness ==
    LET c == calls[1] IN
    /\ c.op = "analyze" /\ c.input.type = "pdf" /\ c.outcome.state = "resolved"
    /\ LastReq(c).data.confidence = Frac(90, 100)
    /\ c.outcome.value.confidence = 90 /\ c.outcome.value.intensity = "High"
    /\ c.outcome.value.emotions[1] = [name |-> "Joy", value |-> 90, color |-> "#3b82f6"]
    /\ StoredField(localStorage, "analyzedConfidenceSum") = Num(90)

\* C16 witness, null confidence: a YouTube response without confidence
\* returned 0 and Low.
C16_WitnessNull ==
    LET c == calls[1] IN
    /\ c.op = "analyzeYouTube" /\ c.outcome.state = "resolved"
    /\ LastReq(c).data.confidence = Null
    /\ c.outcome.value.confidence = 0 /\ c.outcome.value.intensity = "Low"

\* the requests a call sent to a chat endpoint
ChatRequests(c) == {i \in 1..Len(c.sent) : c.sent[i].path \in {"/chat", "/rag-query"}}

\* C17: sendChat dispatches by mode.  In pdf mode it issues exactly one POST,
\* to /rag-query, with the question, the response mode and llm_type, and
\* returns the backend's answer field as the response text; otherwise exactly
\* one POST, to /chat, with the message and llm_type and without the response
\* mode, and returns the backend's response field; llm_type is api for the
\* external provider and local for the local one.
C17_ChatDispatch ==
    \A id \in CallIds :
        LET c == calls[id] IN
        (c.op = "sendMessage" /\ c.pc \in {"sendChat", "settled"} /\ ChatRequests(c) # {}) =>
            /\ Cardinality(ChatRequests(c)) = 1
            /\ LET r == LastReq(c)
                   llm_type == IF c.input.provider = "external" THEN "api" ELSE "local"
               IN  /\ Len(c.sent) \in ChatRequests(c)
                   /\ r.body.llm_type = llm_type
                   /\ IF c.input.mode = "pdf"
                      THEN /\ r.path = "/rag-query"
                           /\ r.body.question = c.input.message
                           /\ r.body.mode = c.input.responseMode
                           /\ r.status = "ok" =>
                                c.outcome = Resolved([response |-> r.data.answer])
                      ELSE /\ r.path = "/chat"
                           /\ r.body.message = c.input.message
                           /\ "mode" \notin DOMAIN r.body
                           /\ r.status = "ok" =>
                                c.outcome = Resolved([response |-> r.data.response])

\* C17 witness: a strict pdf-mode chat with the external provider returned the
\* answer of /rag-query, and a general chat with the local provider returned
\* the response of /chat.
C17_Witness ==
    \E a, b \in CallIds :
        /\ calls[a].op = "sendMessage" /\ calls[a].input.mode = "pdf"
        /\ calls[a].input.provider = "external" /\ calls[a].input.responseMode = "strict"
        /\ LastReq(calls[a]).path = "/rag-query" /\ LastReq(calls[a]).body.llm_type = "api"
        /\ LastReq(calls[a]).body.mode = "strict"
        /\ calls[a].outcome = Resolved([response |-> "grounded"])
        /\ calls[b].op = "sendMessage" /\ calls[b].input.mode = "general"
        /\ calls[b].input.provider = "local"
        /\ LastReq(calls[b]).path = "/chat" /\ LastReq(calls[b]).body.llm_type = "local"
        /\ calls[b].outcome = Resolved([response |-> "hello"])

\* C18: the request body of a chat call carries the credential (api_key) only
\* when the provider is external; a call with provider local never carries
\* one, even when the caller supplied one.
C18_CredentialOnlyExternal ==
    \A id \in CallIds :
        LET c == calls[id] IN
        c.op = "sendMessage" =>
            \A i \in ChatRequests(c) :
                c.input.provider = "local" => c.sent[i].body.api_key = NoKey

AnalysisPaths == {"/video/upload", "/script/upload-pdf", "/script/analyze", "/video/youtube"}

\* the requests a call sent to an analysis endpoint
AnalysisRequests(c) == {i \in 1..Len(c.sent) : c.sent[i].path \in AnalysisPaths}

FailedRequests(c) == {i \in 1..Len(c.sent) : c.sent[i].status = "failed"}

\* C20, state: a call sends at most one request to its chat endpoint and at
\* most one to its analysis endpoint; a failed request is the call's last one,
\* and the call is then rejected with the transport's error: no result, no
\* fallback value.
C20_State ==
    \A id \in CallIds :
        LET c == calls[id] IN
        /\ Cardinality(ChatRequests(c)) <= 1
        /\ Cardinality(AnalysisRequests(c)) <= 1
        /\ c.op = "sendMessage" => AnalysisRequests(c) = {}
        /\ IsAnalysis(c) => ChatRequests(c) = {}
        /\ FailedRequests(c) # {} =>
                /\ FailedRequests(c) = {Len(c.sent)}
                /\ c.pc = "settled"
                /\ c.outcome = Rejected("transport")

\* C20, step: a call whose request has failed never changes again: it sends
\* nothing more and keeps its rejection; the failing step itself changes no
\* metric.
C20_Step ==
    \A id \in CallIds :
        /\ FailedRequests(calls[id]) # {} => calls'[id] = calls[id]
        /\ (FailedRequests(calls[id]) = {} /\ FailedRequests(calls'[id]) # {}) => MetricsUntouched

\* C20: the adapter neither retries nor swallows failures: each sendChat call
\* issues at most one chat request and each analyze / analyzeYouTube call at
\* most one analysis request, and when it fails the call fails to its caller
\* with the transport's error, without a result or fallback value and without
\* a further request.
C20_NoRetryNoSwallow == [](C20_State) /\ [][C20_Step]_vars

\* C20 witness: a chat call and an analysis call were both rejected by their
\* single failed request.
C20_Witness ==
    \E a, b \in CallIds :
        /\ calls[a].op = "sendMessage" /\ Len(calls[a].sent) = 1
        /\ calls[a].sent[1].path = "/chat" /\ calls[a].sent[1].status = "failed"
        /\ calls[a].outcome = Rejected("transport")
        /\ IsAnalysis(calls[b]) /\ Len(calls[b].sent) = 1
        /\ calls[b].sent[1].status = "failed"
        /\ calls[b].outcome = Rejected("transport")

\* C19, state: every request the chat section has built carries a credential
\* only for the external provider, and a call in general mode has sent no
\* upload, whatever document it was handed.
C19_State ==
    \A id \in CallIds :
        LET c == calls[id] IN
        c.op = "sendMessage" =>
            /\ c.input.apiKey # NoKey => c.input.provider = "external"
            /\ c.input.provider = "local" =>
                    \A i \in ChatRequests(c) : c.sent[i].body.api_key = NoKey
            /\ c.input.mode = "general" => "/upload-pdf" \notin PathsOf(c)

\* C19, step: the call a send enters is built from the section's state at
\* that moment: its provider and mode are the selected ones, with the local
\* provider its only request so far carries no API key even if one is still
\* typed in, and in general mode that request is the one to /chat even if a
\* document is still attached.
C19_Step ==
    \A id \in CallIds :
        (calls[id].op = "none" /\ calls'[id].op # "none") =>
            LET c == calls'[id] IN
            /\ c.input.provider = chatbot.llmProvider
            /\ c.input.mode = chatbot.chatMode
            /\ c.input.pdfContext = chatbot.pdfFile
            /\ Len(c.sent) = 1
            /\ chatbot.llmProvider = "local" =>
                    (c.input.apiKey = NoKey
                     /\ (c.sent[1].path # "/upload-pdf" => c.sent[1].body.api_key = NoKey))
            /\ chatbot.llmProvider = "external" => c.input.apiKey = chatbot.apiKey
            /\ chatbot.chatMode = "general" => c.sent[1].path = "/chat"

\* C19: after any sequence of typing an API key, toggling the provider,
\* toggling the chat mode, attaching a document and sending messages, every
\* request built by the chat section carries a credential only when the
\* provider is external (a message sent with the local provider carries no
\* key even if one was typed earlier), and a document attached earlier causes
\* no upload for a message sent in general mode.
C19_ChatRequestInvariant == [](C19_State) /\ [][C19_Step]_vars

\* C19 witness: with a key typed and a document attached earlier, a message
\* was sent in general mode with the local provider: one request, to /chat,
\* without a key.
C19_Witness ==
    \E id \in CallIds :
        LET c == calls[id] IN
        /\ chatbot.apiKey = "sk-1" /\ chatbot.pdfFile = "doc.pdf"
        /\ chatbot.llmProvider = "local" /\ chatbot.chatMode = "general"
        /\ c.op = "sendMessage" /\ c.input.provider = "local" /\ c.input.mode = "general"
        /\ c.input.pdfContext = "doc.pdf"
        /\ Len(c.sent) = 1 /\ c.sent[1].path = "/chat" /\ c.sent[1].body.api_key = NoKey

\* the sum of the three percentages of a breakdown
BreakdownSum(b) == b[1].value + b[2].value + b[3].value

\* C28: for every integer confidence c the three percentages returned by
\* buildEmotionBreakdown sum to a value in 100..105; the sum is exactly 100
\* whenever the dominant percentage is at most 88, and it exceeds 100 only
\* when a minimum-5 floor raised the secondary or the residual entry.
C28_BreakdownSum ==
    (view.state = "applied" /\ view.fn = "buildEmotionBreakdown") =>
        LET dominant == view.result[1].value
            rawSecondary == MathRound(6 * (100 - dominant), 10)
            rawResidual == 100 - dominant - view.result[2].value
        IN  /\ BreakdownSum(view.result) \in 100..105
            /\ dominant <= 88 => BreakdownSum(view.result) = 100
            /\ BreakdownSum(view.result) > 100 => (rawSecondary < 5 \/ rawResidual < 5)
            /\ (rawSecondary >= 5 /\ rawResidual >= 5) => BreakdownSum(view.result) = 100

\* C28 witness: confidence 99 is clamped to 95 and both floors apply: 95 + 5 + 5.
C28_Witness ==
    /\ view.state = "applied" /\ view.fn = "buildEmotionBreakdown"
    /\ view.c = 99
    /\ BreakdownSum(view.result) = 105

\* C28 witness, no floor: a dominant share of 88 gives 88 + 7 + 5 = 100.
C28_WitnessExact ==
    /\ view.state = "applied" /\ view.fn = "buildEmotionBreakdown"
    /\ view.c = 88
    /\ view.result[2].value = 7 /\ view.result[3].value = 5
    /\ BreakdownSum(view.result) = 100

\* C27: the metrics effects of one video or YouTube analysis are atomic for
\* subscribers: starting from an empty store, at every dispatch of the metrics
\* change event the stored record has videosProcessed and the confidence
\* sample of each analysis both applied or both not applied, so that
\* analyzedCount >= videosProcessed at every notification.
C27_AtomicVideoMetrics ==
    \A seen \in events.notified :
        /\ seen.videosProcessed.t = "number" /\ seen.analyzedCount.t = "number"
        /\ seen.analyzedCount.n >= seen.videosProcessed.n

\* C29: getDashboardMetrics is a pure read: in every store state (record
\* missing, corrupt or valid) a call leaves the durable store exactly as it
\* was, writes nothing and broadcasts no change notification; and the stored
\* record changes only in a step of one of the three record operations.
C29_PureRead ==
    [][/\ GetDashboardMetrics =>
            /\ localStorage' = localStorage
            /\ io'.writes = io.writes /\ io'.dispatches = io.dispatches
            /\ invoked' = invoked /\ events' = events
       /\ localStorage'[METRICS_KEY] # localStorage[METRICS_KEY] =>
            \/ IncrementConversation \/ IncrementVideos
            \/ \E c \in SampleInputs : AddAnalysisConfidence(c)]_vars

\* C29 witness: the view was read twice from a store that has no record, and
\* there is still no record.
C29_Witness ==
    /\ io.reads = 2 /\ io.writes = 0 /\ view.state = "returned"
    /\ localStorage[METRICS_KEY] = NoItem

\* C29 witness, corrupt record: the read raised and the stored text is as it was.
C29_WitnessCorrupt ==
    /\ view.state = "returned" /\ view.result.thrown
    /\ localStorage[METRICS_KEY] = JsonStringify(Null) /\ io.writes = 0

\* C29 witness, record operation: a record that was read is then changed by
\* incrementVideos.
C29_WitnessChanged ==
    /\ view.state = "returned" /\ io.writes = 1 /\ events.videoProcessed = 1

\* C21: in the analysis UI a failed handleAnalyze run (validation or
\* transport) is visibly distinguishable from "no result yet" and leaves no
\* stale result shown: after the run the page differs from the page of the
\* same selection with no analysis attempted, and no result of an earlier
\* analysis is displayed.
C21_FailureVisible ==
    [][AnalysisRunFails =>
            /\ Visible(emotion') # [Visible(emotion) EXCEPT !.isAnalyzing = FALSE]
            /\ emotion'.result = Null]_vars

\* C26: whenever the analysis UI displays a result, the result was produced
\* from the currently selected input: when the user picks a different file or
\* switches to YouTube while an analysis is in flight, the superseded
\* analysis's result is ignored and never displayed.
C26_ResultOfSelection ==
    [][\A id \in CallIds :
          (AnalyzeReturned(id) /\ calls[id].outcome.state = "resolved"
           /\ emotion'.result # Null)
          => ProducedFromSelection(calls[id], emotion')]_vars

\* C25: in ChatbotSection the loading flag tracks the requests in flight: in
\* every reachable state isLoading is true if at least one chat request
\* started by handleSendMessage has not settled yet, and false only when none
\* is in flight, also when a second message is submitted with the Enter key
\* while the first is pending.
C25_LoadingTracksRequests == ChatsInFlight # {} => chatbot.isLoading

\* C22: a handleSendMessage call with non-blank input appends exactly one user
\* message at once and issues one adapter call; with blank input it appends
\* nothing and issues no request.  When the call settles exactly one assistant
\* message is appended: the backend's reply text on success, the fixed
\* placeholder on any failure (upload or chat request), never the error's
\* text.  Nothing else changes the conversation, and every user message is
\* eventually followed by exactly one assistant message of its run.
C22_OneReplyPerMessage ==
    /\ [][\A id \in CallIds :
            /\ (SendStep(id) /\ Trim(chatbot.input) # <<>>) =>
                    /\ chatbot'.messages =
                          Append(chatbot.messages,
                                 [role |-> "user", content |-> chatbot.input, run |-> id])
                    /\ calls[id].op = "none" /\ calls'[id].op = "sendMessage"
                    /\ \A other \in CallIds \ {id} : calls'[other] = calls[other]
            /\ (SendStep(id) /\ Trim(chatbot.input) = <<>>) =>
                    chatbot'.messages = chatbot.messages /\ calls' = calls
            /\ SendMessageReturned(id) =>
                    /\ chatbot'.messages = Append(chatbot.messages, AssistantMessage(id))
                    /\ calls[id].outcome.state = "rejected" =>
                            chatbot'.messages[Len(chatbot'.messages)].content = ErrorPlaceholder]_vars
    /\ [][chatbot'.messages # chatbot.messages =>
            \E id \in CallIds : SendStep(id) \/ SendMessageReturned(id)]_vars
    /\ [](\A id \in CallIds :
            /\ Cardinality(MessagesOf(id, "user")) <= 1
            /\ Cardinality(MessagesOf(id, "assistant")) <= 1
            /\ \A a \in MessagesOf(id, "assistant") : \E u \in MessagesOf(id, "user") : u < a)
    /\ \A id \in CallIds :
            (MessagesOf(id, "user") # {}) ~> (MessagesOf(id, "assistant") # {})

\* C22 witness: two messages were sent, the second with Enter while the first
\* was pending; one was answered and one failed; each has its one reply.
C22_Witness ==
    /\ Len(chatbot.messages) = 5
    /\ chatbot.messages[2].role = "user" /\ chatbot.messages[3].role = "user"
    /\ chatbot.messages[4] = [role |-> "assistant", content |-> ErrorPlaceholder, run |-> 2]
    /\ chatbot.messages[5] = [role |-> "assistant", content |-> "hello", run |-> 1]

\* C22 witness, upload failure: a pdf-mode message whose document upload
\* failed got the placeholder, and no chat request was sent.
C22_WitnessUpload ==
    /\ calls[1].op = "sendMessage" /\ PathsOf(calls[1]) = {"/upload-pdf"}
    /\ chatbot.messages[Len(chatbot.messages)] =
            [role |-> "assistant", content |-> ErrorPlaceholder, run |-> 1]

\* C23: the transport's base URL is overridable at runtime and the override
\* is persisted: every request the transport issues goes to the saved base
\* URL when Settings has saved one (also after a later page load), to the
\* build-time environment value when nothing is saved, and to the fallback
\* when there is neither; saving a blank value persists the fallback URL, any
\* other value is persisted trimmed.
C23_SavedBaseUrlUsed ==
    [][/\ \A r \in app'.requested \ app.requested : r.base = BaseUrlInForce
       /\ saveSettings =>
            localStorage'[API_BASE_KEY] =
                IF Trim(app.apiBaseUrl) = <<>> THEN Text(FallbackBaseUrl)
                ELSE Text(Trim(app.apiBaseUrl))]_vars

\* C24: after handleLogout completes the stored bearer token is absent and
\* the user name and email are empty, whether the logout request succeeded or
\* failed; at startup, when a token is stored and the current-user request
\* fails, the token is removed and the user shown as logged out, and when no
\* token is stored no current-user request is issued; setAuthToken with an
\* empty token neither overwrites nor removes a stored token.
C24_LogoutAndRestore ==
    [][/\ (\E ok \in BOOLEAN : LogoutSettled(ok)) =>
            /\ localStorage'[AUTH_TOKEN_KEY] = NoItem
            /\ app'.userName = "" /\ app'.userEmail = ""
       /\ CurrentUserFailed =>
            /\ localStorage'[AUTH_TOKEN_KEY] = NoItem
            /\ app'.userName = "" /\ app'.userEmail = ""
       /\ AppMounted =>
            IF localStorage[AUTH_TOKEN_KEY] = NoItem
            THEN app'.requested = app.requested /\ app'.me = "idle"
            ELSE app'.requested = app.requested \cup {Sent("/auth/me")} /\ app'.me = "pending"
       /\ (\E response \in AuthResponses : AuthSucceeded(response) /\ response.token = <<>>) =>
            localStorage' = localStorage
       /\ \A token \in AuthTokens :
            setAuthToken(localStorage, token)[AUTH_TOKEN_KEY] =
                IF token = <<>> THEN localStorage[AUTH_TOKEN_KEY] ELSE Text(token)]_vars

\* C24 witness: a user who logged in with a stored token clicked Logout, the
\* logout request failed, and the token is gone and the user empty.
C24_Witness ==
    /\ app.settled = {[path |-> "/auth/login", ok |-> TRUE], [path |-> "/auth/logout", ok |-> FALSE]}
    /\ app.logout = 0 /\ app.restored
    /\ localStorage[AUTH_TOKEN_KEY] = NoItem
    /\ app.userName = "" /\ app.userEmail = ""

\* C24 witness, startup: the stored token's current-user request failed; the
\* token was removed and nobody is shown as logged in.
C24_WitnessRestore ==
    /\ app.settled = {[path |-> "/auth/me", ok |-> FALSE]}
    /\ Sent("/auth/me") \in app.requested
    /\ localStorage[AUTH_TOKEN_KEY] = NoItem /\ app.userName = ""

\* C24 witness, no token: the mount effect ran without a stored token and
\* issued no request.
C24_WitnessNoToken ==
    /\ app.restored /\ app.requested = {} /\ app.me = "idle"
    /\ localStorage[AUTH_TOKEN_KEY] = NoItem

\* C24 witness, empty token: a login answered with an empty token left the
\* token of an earlier session in place.
C24_WitnessEmptyToken ==
    /\ app.settled = {[path |-> "/auth/login", ok |-> TRUE]}
    /\ app.userName = "Ada" /\ app.me = "pending"
    /\ localStorage[AUTH_TOKEN_KEY] = Text(<<"t">>)

\* C30: a mounted KPICards stays in sync with the store: after any record
\* events and index-stats responses, in any order, once none of its refreshes
\* is in flight it is not loading and its conversation count, videos-processed
\* count and accuracy score equal getDashboardMetrics() of the current record;
\* its displayed conversation and video counts never decrease; and a failed
\* index-stats request sets documents-analyzed to 0 while the local metrics
\* are displayed all the same and the loading state is left.
C30_CardsInSync ==
    /\ [](\A s \in Dashboard :
            (mounted[s] = "mounted" /\ RefreshesInFlight(s) = 0) =>
                /\ ~cards[s].loading
                /\ Displayed(cards[s]) = getDashboardMetrics(localStorage[METRICS_KEY]))
    /\ [][\A s \in Dashboard :
            /\ cards'[s].conversationCount.n >= cards[s].conversationCount.n
            /\ cards'[s].videosProcessed.n >= cards[s].videosProcessed.n
            /\ \A stats \in IndexStats :
                (LoadMetricsResumed(s, FALSE, stats) /\ mounted[s] = "mounted") =>
                    /\ cards'[s].documentsAnalyzed = 0
                    /\ ~cards'[s].loading
                    /\ Displayed(cards'[s]) = getDashboardMetrics(localStorage[METRICS_KEY])]_vars

\* C30 witness: the cards were notified of a chat and of an analysis, three
\* refreshes resumed, the last one after its index-stats request failed; the
\* cards show the record's values and 0 documents.
C30_Witness ==
    /\ mounted[1] = "mounted" /\ RefreshesInFlight(1) = 0 /\ cards[1].finished >= 3
    /\ invoked[1] >= 3
    /\ events.conversation = 1 /\ events.videoProcessed = 1
    /\ cards[1].documentsAnalyzed = 0 /\ ~cards[1].loading
    /\ cards[1].conversationCount.n >= 1 /\ cards[1].videosProcessed.n >= 1
    /\ cards[1].aiAccuracy = Num(80)

\* C30 witness, refreshes outrun by events: a refresh resumed while later
\* notifications were still being served, so the cards lag until those resume.
C30_WitnessLagging ==
    /\ mounted[1] = "mounted" /\ RefreshesInFlight(1) > 0 /\ ~cards[1].loading
    /\ Displayed(cards[1]) # getDashboardMetrics(localStorage[METRICS_KEY])

====
